---------------------------- MODULE Spec2Model ----------------------------
(***************************************************************************)
(* Model of the analytics dashboard's server core: the access guard        *)
(* (withAuth / the edge route's inline check), the query parameter         *)
(* validators, the four protected GET routes, the metrics aggregation of   *)
(* /api/analytics/summary and the login route.                             *)
(*                                                                         *)
(* Conventions                                                             *)
(*  - JavaScript null / absent numeric column: NULL (counters and rates    *)
(*    are non-negative, so NULL is outside their range).                   *)
(*  - Timestamps are whole days (posted_at, now); the 30 day window of     *)
(*    the source is WINDOW_DAYS days.                                      *)
(*  - Non-integer numbers (averages, percentage changes) are exact         *)
(*    rationals [n |-> numerator, d |-> denominator > 0]; toFixed(k) is    *)
(*    rounding to a multiple of 10^-k, half away from zero.                *)
(*  - Raw request strings are sequences of one-character strings, so       *)
(*    that trim and the regular expressions act on characters.             *)
(*                                                                         *)
(* Spec is one request through a route, SpecAgg the aggregation of the     *)
(* summary handler over arbitrary post lists, SpecVal one call of a query  *)
(* parameter validator over arbitrary arguments, SpecSession one browser   *)
(* session against the auth routes, SpecStore the UI store.                *)
(***************************************************************************)
EXTENDS Integers, Sequences, FiniteSets, TLC

VARIABLES
    \* ---- one HTTP request through a protected route (Spec) ----
    config,         \* process environment: NODE_ENV, the Supabase variables
    pc,             \* position of the request: idle, guard, handler, query, done
    req,            \* the request: endpoint, credential state, raw parameters
    user,           \* principal resolved by the guard, NoUser before / without
    handlerInvoked, \* the wrapped route handler has been entered
    queries,        \* datastore queries built by this request, in order
    resp,           \* the response sent, NoResp before
    steps,          \* the pipeline steps this request has run, in order
    cookiesSet,     \* setAll of the guard's auth client has written session cookies
    \* ---- the summary aggregation on its own (SpecAgg) ----
    posts,          \* the principal's rows fetched from posts
    now,            \* request time, in days
    views,          \* recentPosts, previousPosts, posts of the handler
    metrics,        \* recentMetrics, previousMetrics, allPostsMetrics of the handler
    summary,        \* data of the summary response, NoSummary before
    aggDone,        \* the aggregation has run
    \* ---- one call of a query parameter validator (SpecVal) ----
    valCall,        \* the validator called and its arguments, NoCall without
    valResult,      \* what the call returned, NoResult before
    \* ---- one browser session against the auth routes (SpecSession) ----
    session,        \* the user the session cookies authenticate, NoUser without
    cache,          \* entries of the client query cache: query key and owner of the data
    page,           \* the page the browser shows: login, signup, dashboard
    logoutCalls,    \* calls of POST /api/auth/logout made in a row
    \* ---- the UI store (SpecStore) ----
    ui,             \* state fields of useUIStore
    storeCall       \* the last action called on the store, its argument, the state before

vars == <<config, pc, req, user, handlerInvoked, queries, resp, steps,
          posts, now, views, metrics, summary, aggDone, valCall, valResult,
          session, cache, page, logoutCalls, ui, storeCall, cookiesSet>>

reqVars == <<config, pc, req, user, handlerInvoked, queries, resp, steps, cookiesSet>>

aggVars == <<posts, now, views, metrics, summary, aggDone>>

valVars == <<valCall, valResult>>

clientVars == <<session, cache, page, logoutCalls>>

storeVars == <<ui, storeCall>>

-----------------------------------------------------------------------------
(* Bounds of the model *)

\* longest post list handed to the aggregation
MaxPosts == 3

\* longest string over Alphabet handed to a validator
MaxLen == 3

\* most calls of the logout route made in a row
MaxCalls == 3

-----------------------------------------------------------------------------
(* Values *)

NULL == -1

\* setDate(getDate() - 30)
WINDOW_DAYS == 30

\* x || 0 on a numeric column
OrZero(x) == IF x = NULL THEN 0 ELSE x

Rat(n, d) == [n |-> n, d |-> d]

IntRat(i) == Rat(i, 1)

RatEq(a, b) == a.n * b.d = b.n * a.d

RatLess(a, b) == a.n * b.d < b.n * a.d

Abs(i) == IF i < 0 THEN -i ELSE i

\* n / d rounded to the nearest integer, a tie away from zero (d > 0)
RoundDiv(n, d) ==
    IF n >= 0 THEN (2 * n + d) \div (2 * d)
    ELSE -((2 * (-n) + d) \div (2 * d))

\* Number(x.toFixed(2))
ToFixed2(x) == Rat(RoundDiv(100 * x.n, x.d), 100)

\* Number(x.toFixed(1))
ToFixed1(x) == Rat(RoundDiv(10 * x.n, x.d), 10)

-----------------------------------------------------------------------------
(* Metrics aggregation of GET /api/analytics/summary *)

\* const last30DaysStart = new Date(now); setDate(getDate() - 30)
Last30DaysStart(t) == t - WINDOW_DAYS

\* const previous30DaysStart = new Date(last30DaysStart); setDate(getDate() - 30)
Previous30DaysStart(t) == Last30DaysStart(t) - WINDOW_DAYS

\* variant: the boundary day itself falls out of the recent window
RecentPostsStrict(postList, t) ==
    SelectSeq(postList, LAMBDA post : post.posted_at > Last30DaysStart(t))

\* posts.filter(post => postDate >= last30DaysStart)
RecentPosts(postList, t) ==
    SelectSeq(postList, LAMBDA post : post.posted_at >= Last30DaysStart(t))

\* variant: the first day of the recent window also closes the previous one
PreviousPostsInclusive(postList, t) ==
    SelectSeq(postList, LAMBDA post :
        /\ post.posted_at >= Previous30DaysStart(t)
        /\ post.posted_at <= Last30DaysStart(t))

\* posts.filter(post => postDate >= previous30DaysStart && postDate < last30DaysStart)
PreviousPosts(postList, t) ==
    SelectSeq(postList, LAMBDA post :
        /\ post.posted_at >= Previous30DaysStart(t)
        /\ post.posted_at < Last30DaysStart(t))

\* postList.reduce((sum, post) => sum + (post[field] || 0), 0)
RECURSIVE SumField(_, _)
SumField(postList, field) ==
    IF postList = <<>> THEN 0
    ELSE OrZero(Head(postList)[field]) + SumField(Tail(postList), field)

\* variant: a post without a rate is averaged as a rate of 0
PostsWithEngagementRateAll(postList) == postList

\* postList.filter(post => post.engagement_rate !== null)
PostsWithEngagementRate(postList) ==
    SelectSeq(postList, LAMBDA post : post.engagement_rate # NULL)

\* sum of engagement_rate / number of posts that have one, 0 when none has
AverageEngagementRate(postList) ==
    LET withRate == PostsWithEngagementRate(postList)
    IN  IF Len(withRate) > 0
        THEN Rat(SumField(withRate, "engagement_rate"), Len(withRate))
        ELSE IntRat(0)

\* variant: saves are left out of the engagements
TotalEngagementsNoSaves(postList) ==
    SumField(postList, "likes") + SumField(postList, "comments")
        + SumField(postList, "shares")

\* totalLikes + totalComments + totalShares + sum of saves
TotalEngagements(postList) ==
    SumField(postList, "likes") + SumField(postList, "comments")
        + SumField(postList, "shares") + SumField(postList, "saves")

calculateMetrics(postList) ==
    [ totalPosts            |-> Len(postList),
      totalViews            |-> SumField(postList, "impressions"),
      totalEngagements      |-> TotalEngagements(postList),
      averageEngagementRate |-> AverageEngagementRate(postList),
      totalReach            |-> SumField(postList, "reach"),
      totalLikes            |-> SumField(postList, "likes"),
      totalComments         |-> SumField(postList, "comments"),
      totalShares           |-> SumField(postList, "shares") ]

\* variant: the change is capped at +100
calculateChangeCapped(current, previous) ==
    IF previous.n = 0
    THEN IF current.n > 0 THEN IntRat(100) ELSE IntRat(0)
    ELSE LET change == ToFixed1(Rat(100 * (current.n * previous.d
                                            - previous.n * current.d),
                                     current.d * previous.n))
         IN  IF RatLess(IntRat(100), change) THEN IntRat(100) ELSE change

\* if (previous === 0) return current > 0 ? 100 : 0;
\* return Number((((current - previous) / previous) * 100).toFixed(1));
calculateChange(current, previous) ==
    IF previous.n = 0
    THEN IF current.n > 0 THEN IntRat(100) ELSE IntRat(0)
    ELSE ToFixed1(Rat(100 * (current.n * previous.d - previous.n * current.d),
                      current.d * previous.n))

\* (post.likes || 0) + (post.comments || 0) + (post.shares || 0) + (post.saves || 0)
Engagement(post) ==
    OrZero(post.likes) + OrZero(post.comments)
        + OrZero(post.shares) + OrZero(post.saves)

\* variant: a later post with the same engagement replaces the top post
BeatsOrTies(engagement, maxEngagement) == engagement >= maxEngagement

\* if (engagement > maxEngagement) { maxEngagement = engagement; topPost = post; }
Beats(engagement, maxEngagement) == engagement > maxEngagement

\* the for loop of findTopPost from position i on, with the top post so far
RECURSIVE TopScan(_, _, _)
TopScan(postList, i, top) ==
    IF i > Len(postList) THEN top
    ELSE IF Beats(Engagement(postList[i]), Engagement(postList[top]))
         THEN TopScan(postList, i + 1, i)
         ELSE TopScan(postList, i + 1, top)

\* topPost.caption || 'No caption'
CaptionOf(post) == IF post.caption = "" THEN "No caption" ELSE post.caption

\* null is <<>>, a top post is a one-element sequence
findTopPost(postList) ==
    IF Len(postList) = 0 THEN <<>>
    ELSE LET top == postList[TopScan(postList, 1, 1)]
         IN  << [ id         |-> top.id,
                  caption    |-> CaptionOf(top),
                  engagement |-> Engagement(top),
                  postedAt   |-> top.posted_at ] >>

\* variant: the reply to a user without posts names a placeholder top post
EmptySummaryPlaceholderTop ==
    [ totalPosts            |-> 0,
      totalViews            |-> 0,
      totalEngagements      |-> 0,
      averageEngagementRate |-> IntRat(0),
      totalReach            |-> 0,
      totalLikes            |-> 0,
      totalComments         |-> 0,
      totalShares           |-> 0,
      topPost               |-> << [ id |-> 0, caption |-> "No caption",
                                     engagement |-> 0, postedAt |-> 0 ] >>,
      changes               |->
        [ totalPosts            |-> IntRat(0),
          totalViews            |-> IntRat(0),
          totalEngagements      |-> IntRat(0),
          averageEngagementRate |-> IntRat(0),
          totalReach            |-> IntRat(0),
          totalLikes            |-> IntRat(0),
          totalComments         |-> IntRat(0),
          totalShares           |-> IntRat(0) ] ]

\* the reply of the summary route to a user without posts
EmptySummary ==
    [ totalPosts            |-> 0,
      totalViews            |-> 0,
      totalEngagements      |-> 0,
      averageEngagementRate |-> IntRat(0),
      totalReach            |-> 0,
      totalLikes            |-> 0,
      totalComments         |-> 0,
      totalShares           |-> 0,
      topPost               |-> <<>>,
      changes               |->
        [ totalPosts            |-> IntRat(0),
          totalViews            |-> IntRat(0),
          totalEngagements      |-> IntRat(0),
          averageEngagementRate |-> IntRat(0),
          totalReach            |-> IntRat(0),
          totalLikes            |-> IntRat(0),
          totalComments         |-> IntRat(0),
          totalShares           |-> IntRat(0) ] ]

\* Number(allPostsMetrics.averageEngagementRate.toFixed(2))
ReportedAverage(allPostsMetrics) == ToFixed2(allPostsMetrics.averageEngagementRate)

\* changes.<metric>: calculateChange(recentMetrics.<metric>, previousMetrics.<metric>)
ChangeOf(recentMetrics, previousMetrics, metric) ==
    IF metric = "averageEngagementRate"
    THEN calculateChange(recentMetrics[metric], previousMetrics[metric])
    ELSE calculateChange(IntRat(recentMetrics[metric]), IntRat(previousMetrics[metric]))

\* recentPosts, previousPosts and posts of the handler
SummaryViews(postList, t) ==
    [ recent   |-> RecentPosts(postList, t),
      previous |-> PreviousPosts(postList, t),
      all      |-> postList ]

\* recentMetrics, previousMetrics and allPostsMetrics of the handler
SummaryMetrics(v) ==
    [ recent   |-> calculateMetrics(v.recent),
      previous |-> calculateMetrics(v.previous),
      all      |-> calculateMetrics(v.all) ]

\* variant: every field of the summary is taken from the recent window
SummaryDataRecentOnly(postList, m) ==
    [ totalPosts            |-> m.recent.totalPosts,
      totalViews            |-> m.recent.totalViews,
      totalEngagements      |-> m.recent.totalEngagements,
      averageEngagementRate |-> ToFixed2(m.recent.averageEngagementRate),
      totalReach            |-> m.recent.totalReach,
      totalLikes            |-> m.recent.totalLikes,
      totalComments         |-> m.recent.totalComments,
      totalShares           |-> m.recent.totalShares,
      topPost               |-> findTopPost(postList),
      changes               |->
        [ metric \in { "totalPosts", "totalViews", "totalEngagements",
                       "averageEngagementRate", "totalReach", "totalLikes",
                       "totalComments", "totalShares" } |->
            ChangeOf(m.recent, m.previous, metric) ] ]

MetricNames ==
    { "totalPosts", "totalViews", "totalEngagements", "averageEngagementRate",
      "totalReach", "totalLikes", "totalComments", "totalShares" }

\* the data object of the response for a user who has posts
SummaryData(postList, m) ==
    [ totalPosts            |-> m.recent.totalPosts,
      totalViews            |-> m.recent.totalViews,
      totalEngagements      |-> m.all.totalEngagements,
      averageEngagementRate |-> ReportedAverage(m.all),
      totalReach            |-> m.recent.totalReach,
      totalLikes            |-> m.recent.totalLikes,
      totalComments         |-> m.recent.totalComments,
      totalShares           |-> m.recent.totalShares,
      topPost               |-> findTopPost(postList),
      changes               |->
        [ metric \in MetricNames |-> ChangeOf(m.recent, m.previous, metric) ] ]

\* the handler's locals before it has computed anything
NoViews == [ recent |-> <<>>, previous |-> <<>>, all |-> <<>> ]

NoMetrics == [ recent |-> <<>>, previous |-> <<>>, all |-> <<>> ]

NoSummary == <<>>

\* if (!posts || posts.length === 0) return the zeroed summary; else aggregate
ViewsFor(postList, t) ==
    IF Len(postList) = 0 THEN NoViews ELSE SummaryViews(postList, t)

MetricsFor(postList, t) ==
    IF Len(postList) = 0 THEN NoMetrics
    ELSE SummaryMetrics(SummaryViews(postList, t))

\* variant: the top post is looked for among the recent posts
AnalyticsSummaryTopOfRecent(postList, t) ==
    IF Len(postList) = 0 THEN EmptySummary
    ELSE [ SummaryData(postList, SummaryMetrics(SummaryViews(postList, t)))
             EXCEPT !.topPost = findTopPost(RecentPosts(postList, t)) ]

AnalyticsSummary(postList, t) ==
    IF Len(postList) = 0 THEN EmptySummary
    ELSE SummaryData(postList, SummaryMetrics(SummaryViews(postList, t)))

-----------------------------------------------------------------------------
(* Request strings and the query parameter validators *)

\* searchParams.get() of a parameter the request does not carry
NullParam == << "<null>" >>

\* a value that is not a string (a number, an object)
NonString == << "<object>" >>

\* an allowedValues argument the caller left out
Undefined == << << "<undefined>" >> >>

\* !value
Falsy(value) == value = NullParam \/ value = <<>>

\* typeof value === 'string'
IsString(value) == value # NullParam /\ value # NonString

Digits == { "0", "1", "2", "3", "4", "5", "6", "7", "8", "9" }

Letters ==
    { "a", "b", "c", "d", "e", "f", "g", "h", "i", "j", "k", "l", "m",
      "n", "o", "p", "q", "r", "s", "t", "u", "v", "w", "x", "y", "z",
      "A", "B", "C", "D", "E", "F", "G", "H", "I", "J", "K", "L", "M",
      "N", "O", "P", "Q", "R", "S", "T", "U", "V", "W", "X", "Y", "Z" }

\* the characters \s matches and trim() strips
Whitespace == { " ", "\t", "\n" }

RECURSIVE TrimStart(_)
TrimStart(str) ==
    IF str # <<>> /\ Head(str) \in Whitespace THEN TrimStart(Tail(str)) ELSE str

RECURSIVE TrimEnd(_)
TrimEnd(str) ==
    IF str # <<>> /\ str[Len(str)] \in Whitespace
    THEN TrimEnd(SubSeq(str, 1, Len(str) - 1))
    ELSE str

\* value.trim()
Trim(str) == TrimEnd(TrimStart(str))

\* allowedValues.includes(sanitized)
Includes(allowedValues, sanitized) ==
    \E i \in 1..Len(allowedValues) : allowedValues[i] = sanitized

\* /^[a-zA-Z0-9_\-\s]+$/.test(sanitized)
MatchesBasicPattern(str) ==
    /\ Len(str) > 0
    /\ \A i \in 1..Len(str) :
          str[i] \in Letters \cup Digits \cup { "_", "-" } \cup Whitespace

validateStringParam(value, allowedValues) ==
    IF Falsy(value) \/ ~IsString(value) THEN NullParam
    ELSE LET sanitized == Trim(value)
         IN  IF allowedValues # Undefined /\ Len(allowedValues) > 0
             THEN IF Includes(allowedValues, sanitized) THEN sanitized ELSE NullParam
             ELSE IF MatchesBasicPattern(sanitized) THEN sanitized ELSE NullParam

\* /^\d{4}-\d{2}-\d{2}$/.test(sanitized)
MatchesDatePattern(str) ==
    /\ Len(str) = 10
    /\ \A i \in { 1, 2, 3, 4, 6, 7, 9, 10 } : str[i] \in Digits
    /\ str[5] = "-"
    /\ str[8] = "-"

DigitValue(c) ==
    CASE c = "0" -> 0 [] c = "1" -> 1 [] c = "2" -> 2 [] c = "3" -> 3 [] c = "4" -> 4
      [] c = "5" -> 5 [] c = "6" -> 6 [] c = "7" -> 7 [] c = "8" -> 8 [] c = "9" -> 9

YearOf(str) ==
    1000 * DigitValue(str[1]) + 100 * DigitValue(str[2])
        + 10 * DigitValue(str[3]) + DigitValue(str[4])

MonthOf(str) == 10 * DigitValue(str[6]) + DigitValue(str[7])

DayOf(str) == 10 * DigitValue(str[9]) + DigitValue(str[10])

\* variant: every string of the date pattern parses
DateParsesAny(str) == TRUE

\* !isNaN(new Date(sanitized).getTime()) for a string of the date pattern: the
\* month is 01..12 and the day 01..31; a day past the month's end rolls over
DateParses(str) ==
    /\ MonthOf(str) >= 1 /\ MonthOf(str) <= 12
    /\ DayOf(str) >= 1 /\ DayOf(str) <= 31

validateDateParam(value) ==
    IF Falsy(value) \/ ~IsString(value) THEN NullParam
    ELSE LET sanitized == Trim(value)
         IN  IF MatchesDatePattern(sanitized) /\ DateParses(sanitized)
             THEN sanitized
             ELSE NullParam

Str_asc == <<"a", "s", "c">>

Str_desc == <<"d", "e", "s", "c">>

\* variant: surrounding whitespace is dropped before the comparison
validateSortOrderTrimmed(value) ==
    IF Trim(value) = Str_asc \/ Trim(value) = Str_desc THEN Trim(value) ELSE Str_desc

\* value === 'asc' || value === 'desc' ? value : 'desc'
validateSortOrder(value) ==
    IF value = Str_asc \/ value = Str_desc THEN value ELSE Str_desc

Str_all == <<"a", "l", "l">>

Str_instagram == <<"i", "n", "s", "t", "a", "g", "r", "a", "m">>

Str_facebook == <<"f", "a", "c", "e", "b", "o", "o", "k">>

Str_twitter == <<"t", "w", "i", "t", "t", "e", "r">>

Str_linkedin == <<"l", "i", "n", "k", "e", "d", "i", "n">>

Str_tiktok == <<"t", "i", "k", "t", "o", "k">>

Str_youtube == <<"y", "o", "u", "t", "u", "b", "e">>

Str_image == <<"i", "m", "a", "g", "e">>

Str_video == <<"v", "i", "d", "e", "o">>

Str_carousel == <<"c", "a", "r", "o", "u", "s", "e", "l">>

Str_reel == <<"r", "e", "e", "l">>

Str_story == <<"s", "t", "o", "r", "y">>

Str_posted_at == <<"p", "o", "s", "t", "e", "d", "_", "a", "t">>

Str_impressions == <<"i", "m", "p", "r", "e", "s", "s", "i", "o", "n", "s">>

Str_likes == <<"l", "i", "k", "e", "s">>

Str_comments == <<"c", "o", "m", "m", "e", "n", "t", "s">>

Str_shares == <<"s", "h", "a", "r", "e", "s">>

Str_reach == <<"r", "e", "a", "c", "h">>

Str_engagement_rate ==
    <<"e", "n", "g", "a", "g", "e", "m", "e", "n", "t", "_", "r", "a", "t", "e">>

Str_platform == <<"p", "l", "a", "t", "f", "o", "r", "m">>

Str_media_type == <<"m", "e", "d", "i", "a", "_", "t", "y", "p", "e">>

ALLOWED_PLATFORMS ==
    << Str_all, Str_instagram, Str_facebook, Str_twitter, Str_linkedin,
       Str_tiktok, Str_youtube >>

ALLOWED_MEDIA_TYPES ==
    << Str_all, Str_image, Str_video, Str_carousel, Str_reel, Str_story >>

\* no validator is being called
NoCall == [ fn |-> "none" ]

NoResult == << "<pending>" >>

ALLOWED_POST_SORT_FIELDS ==
    << Str_posted_at, Str_impressions, Str_likes, Str_comments, Str_shares,
       Str_reach, Str_engagement_rate, Str_platform, Str_media_type >>

\* whether year y is a leap year
IsLeap(y) == (y % 4 = 0 /\ y % 100 # 0) \/ y % 400 = 0

\* days of the year before month m
DaysBeforeMonth(y, m) ==
    LET common == << 0, 31, 59, 90, 120, 151, 181, 212, 243, 273, 304, 334 >>
    IN  common[m] + (IF m > 2 /\ IsLeap(y) THEN 1 ELSE 0)

\* days before 1 January of year y, counted from 1 January of year 1
DaysBeforeYear(y) ==
    365 * (y - 1) + ((y - 1) \div 4) - ((y - 1) \div 100) + ((y - 1) \div 400)

\* the day a date string denotes, 2024-01-01 being day 1 (the unit of posted_at,
\* date and now)
DayNumber(str) ==
    DaysBeforeYear(YearOf(str)) + DaysBeforeMonth(YearOf(str), MonthOf(str))
        + DayOf(str) - DaysBeforeYear(2024)

-----------------------------------------------------------------------------
(* Rows of the posts table *)

\* metric columns and caption of a row: every counter absent
SampleBlank ==
    [ caption |-> "",  likes |-> NULL, comments |-> NULL, shares |-> NULL,
      saves |-> NULL, impressions |-> NULL, reach |-> NULL, engagement_rate |-> NULL ]

\* engagement 1, rate 1
SampleLiked ==
    [ caption |-> "a", likes |-> 1,    comments |-> NULL, shares |-> 0,
      saves |-> NULL, impressions |-> 3,    reach |-> 2,    engagement_rate |-> 1 ]

\* engagement 2, rate 0
SampleShared ==
    [ caption |-> "b", likes |-> NULL, comments |-> 1,    shares |-> 1,
      saves |-> 0,    impressions |-> NULL, reach |-> 1,    engagement_rate |-> 0 ]

\* engagement 2 from saves alone, rate 2
SampleSaved ==
    [ caption |-> "",  likes |-> 0,    comments |-> 0,    shares |-> NULL,
      saves |-> 2,    impressions |-> 1,    reach |-> NULL, engagement_rate |-> 2 ]

\* engagement 5, no rate
SampleBusy ==
    [ caption |-> "c", likes |-> 2,    comments |-> 1,    shares |-> 1,
      saves |-> 1,    impressions |-> 5,    reach |-> 4,    engagement_rate |-> NULL ]

PostSamples == { SampleBlank, SampleLiked, SampleShared, SampleSaved, SampleBusy }

\* request times, in days
NowSamples == { 100, 101 }

\* posting days: 40 and 70 lie on a window boundary at time 100 and one day
\* beyond it at time 101
PostedAtSamples == { 40, 70, 100 }

\* a row of posts
PostRow(id, owner, platform, mediaType, postedAt, sample) ==
    [ id              |-> id,
      user_id         |-> owner,
      platform        |-> platform,
      media_type      |-> mediaType,
      posted_at       |-> postedAt,
      caption         |-> sample.caption,
      likes           |-> sample.likes,
      comments        |-> sample.comments,
      shares          |-> sample.shares,
      saves           |-> sample.saves,
      impressions     |-> sample.impressions,
      reach           |-> sample.reach,
      engagement_rate |-> sample.engagement_rate ]

\* postList is a list of up to MaxPosts rows of one principal, ids in list order
IsPostList(postList) ==
    \E k \in 0..MaxPosts :
        \E f \in [ 1..k -> PostedAtSamples \X PostSamples ] :
            postList = [ i \in 1..k |->
                           PostRow(i, "u1", Str_instagram, Str_image, f[i][1], f[i][2]) ]

-----------------------------------------------------------------------------
(* The datastore *)

Users == { "u1", "u2" }

\* rows of posts in storage order; u2 owns none
PostsTable ==
    << PostRow(1, "u1", Str_instagram, Str_image, 100, SampleLiked),
       PostRow(2, "u1", Str_tiktok,    Str_video, 70,  SampleSaved),
       PostRow(3, "u1", Str_instagram, Str_video, 40,  SampleShared) >>

\* rows of daily_metrics in storage order, one per owner and date
DailyMetricsTable ==
    << [ user_id |-> "u1", date |-> 70,  engagement |-> 4 ],
       [ user_id |-> "u2", date |-> 40,  engagement |-> 9 ],
       [ user_id |-> "u1", date |-> 40,  engagement |-> 2 ],
       [ user_id |-> "u1", date |-> 100, engagement |-> 7 ],
       [ user_id |-> "u2", date |-> 70,  engagement |-> 1 ] >>

TableRows(table) == IF table = "posts" THEN PostsTable ELSE DailyMetricsTable

\* .eq(column, value), .gte(column, value), .lte(column, value) on one row; a date
\* value is compared as the day it denotes
FilterMatches(row, filter) ==
    CASE filter.op = "eq"  -> row[filter.column] = filter.value
      [] filter.op = "gte" -> row[filter.column] >= DayNumber(filter.value)
      [] filter.op = "lte" -> row[filter.column] <= DayNumber(filter.value)

RECURSIVE InsertByDate(_, _)
InsertByDate(row, sorted) ==
    IF sorted = <<>> THEN << row >>
    ELSE IF row.date < Head(sorted).date THEN << row >> \o sorted
         ELSE << Head(sorted) >> \o InsertByDate(row, Tail(sorted))

\* .order('date', { ascending: true })
RECURSIVE OrderByDate(_)
OrderByDate(rows) ==
    IF rows = <<>> THEN <<>>
    ELSE InsertByDate(Head(rows), OrderByDate(Tail(rows)))

\* the rows a query returns when the datastore answers
RunQuery(query) ==
    LET rows == SelectSeq(TableRows(query.table), LAMBDA row :
                    \A i \in 1..Len(query.filters) : FilterMatches(row, query.filters[i]))
    IN  IF query.ordered THEN OrderByDate(rows) ELSE rows

-----------------------------------------------------------------------------
(* Requests *)

\* /api/posts, /api/analytics/summary, /api/daily-metrics, /api/metrics/daily
WithAuthEndpoints == { "posts", "analytics_summary", "daily_metrics" }

Endpoints == WithAuthEndpoints \cup { "metrics_daily" }

\* the user whose session has an expired access token and a valid refresh token
RefreshableUser == "u1"

\* the session cookie of the request: a valid session of a user, none, an expired
\* one, a malformed one, one whose access token has expired but can be refreshed
CredentialSamples == Users \cup { "missing", "expired", "malformed", "refreshable" }

PlatformSamples ==
    { NullParam, Str_all, Str_tiktok, << " " >> \o Str_instagram,
      <<"x", "'", " ", "O", "R", " ", "1", "=", "1">> }

MediaTypeSamples == { NullParam, Str_all, Str_video }

\* 2024-02-09 is day 40, 2024-03-10 is day 70
StartDateSamples ==
    { NullParam, <<"2", "0", "2", "4", "-", "0", "3", "-", "1", "0">>, <<"2", "0", "2", "4", "-", "3", "-", "1", "0">> }

EndDateSamples ==
    { NullParam, <<"2", "0", "2", "4", "-", "0", "2", "-", "0", "9">>, <<"2", "0", "2", "4", "-", "0", "3", "-", "1", "0">>, <<"2", "0", "2", "4", "/", "0", "3", "/", "1", "0">> }

SortFieldSamples == { NullParam, Str_likes, <<"i", "d", ";", "-", "-">> }

SortOrderSamples == { NullParam, Str_asc }

\* the query parameters a route's URL takes; a request carries no others
ParamsOf(endpoint) ==
    CASE endpoint = "posts" ->
            { "platform", "mediaType", "startDate", "endDate", "sortField", "sortOrder" }
      [] endpoint \in { "daily_metrics", "metrics_daily" } -> { "startDate", "endDate" }
      [] OTHER -> {}

\* the raw values a request to the endpoint can carry in the named parameter
RawValues(endpoint, name, samples) ==
    IF name \in ParamsOf(endpoint) THEN samples ELSE { NullParam }

\* a user_id the caller writes into the query string
OwnerParamSamples == Users \cup { "none" }

\* what the datastore and the auth service can throw or return as an error
ErrorSamples ==
    { [ isError |-> TRUE,  message |-> "connect ECONNREFUSED 10.0.0.5:5432" ],
      [ isError |-> TRUE,  message |-> "relation posts does not exist" ],
      [ isError |-> FALSE, message |-> "timeout" ] }

NoReq == [ endpoint |-> "none" ]

NoUser == "none"

NoResp == [ status |-> 0 ]

\* sanitizeError that returns the message of an Error whatever NODE_ENV is
sanitizeErrorAnyEnv(error, genericMessage) ==
    IF error.isError THEN error.message ELSE genericMessage

\* sanitizeError(error, genericMessage)
sanitizeError(error, genericMessage) ==
    IF config.nodeEnv = "development"
    THEN IF error.isError THEN error.message ELSE genericMessage
    ELSE genericMessage

\* what supabase.auth.getUser() can do for the request: return a user, return an
\* error without a user, or throw
\* setAll tells whether the auth client called the setAll of its cookies option,
\* which it does when it has exchanged the refresh token for a new session
GetUserOutcomes(r) ==
    IF r.authBackend = "down"
    THEN { [ user |-> NoUser, error |-> TRUE, throws |-> FALSE, setAll |-> FALSE ],
           [ user |-> NoUser, error |-> FALSE, throws |-> TRUE, setAll |-> FALSE ] }
    ELSE IF r.credential \in Users
         THEN { [ user |-> r.credential, error |-> FALSE, throws |-> FALSE,
                  setAll |-> FALSE ] }
         ELSE IF r.credential = "missing"
              THEN { [ user |-> NoUser, error |-> FALSE, throws |-> FALSE,
                       setAll |-> FALSE ],
                     [ user |-> NoUser, error |-> TRUE, throws |-> FALSE,
                       setAll |-> FALSE ] }
              ELSE IF r.credential = "refreshable"
              THEN { [ user |-> RefreshableUser, error |-> FALSE, throws |-> FALSE,
                       setAll |-> TRUE ] }
              ELSE { [ user |-> NoUser, error |-> TRUE, throws |-> FALSE,
                       setAll |-> FALSE ] }

\* try { createClient(); getUser(); if (error || !user) return null; return user }
\* catch { return null }
getAuthenticatedUser(outcome) ==
    IF ~config.supabaseEnv THEN NoUser
    ELSE IF outcome.throws THEN NoUser
    ELSE IF outcome.error \/ outcome.user = NoUser THEN NoUser
    ELSE outcome.user

\* NextResponse.json({ error: 'Unauthorized' }, { status: 401 })
UnauthorizedResponse == [ status |-> 401, body |-> [ error |-> "Unauthorized" ] ]

\* the 401 of the edge route
EdgeUnauthorizedResponse ==
    [ status |-> 401, body |-> [ success |-> FALSE, error |-> "Unauthorized" ] ]

\* the values a fresh request starts from
ResetAgg ==
    /\ posts' = <<>>
    /\ now' = 0
    /\ views' = NoViews
    /\ metrics' = NoMetrics
    /\ summary' = NoSummary
    /\ aggDone' = FALSE

\* a request arrives at a route
Request ==
    /\ pc = "idle"
    /\ \E endpoint \in Endpoints, credential \in CredentialSamples,
          authBackend \in { "up", "down" }, ownerParam \in OwnerParamSamples :
       \E platform  \in RawValues(endpoint, "platform", PlatformSamples),
          mediaType \in RawValues(endpoint, "mediaType", MediaTypeSamples),
          startDate \in RawValues(endpoint, "startDate", StartDateSamples),
          endDate   \in RawValues(endpoint, "endDate", EndDateSamples),
          sortField \in RawValues(endpoint, "sortField", SortFieldSamples),
          sortOrder \in RawValues(endpoint, "sortOrder", SortOrderSamples) :
          req' = [ endpoint    |-> endpoint,
                   credential  |-> credential,
                   authBackend |-> authBackend,
                   user_id     |-> ownerParam,
                   platform    |-> platform,
                   mediaType   |-> mediaType,
                   startDate   |-> startDate,
                   endDate     |-> endDate,
                   sortField   |-> sortField,
                   sortOrder   |-> sortOrder ]
    /\ pc' = "guard"
    /\ user' = NoUser
    /\ handlerInvoked' = FALSE
    /\ queries' = <<>>
    /\ resp' = NoResp
    /\ steps' = <<>>
    /\ cookiesSet' = FALSE
    /\ ResetAgg
    /\ UNCHANGED config
    /\ UNCHANGED <<valVars, clientVars, storeVars>>

\* variant: withAuth calls the handler without looking at what requireAuth returned
WithAuthGuardUnchecked ==
    /\ pc = "guard"
    /\ req.endpoint \in WithAuthEndpoints
    /\ \E outcome \in GetUserOutcomes(req) :
          /\ cookiesSet' = (config.supabaseEnv /\ outcome.setAll)
          /\ user' = getAuthenticatedUser(outcome)
          /\ handlerInvoked' = TRUE
          /\ pc' = "handler"
          /\ steps' = Append(steps, "guard")
          /\ UNCHANGED resp
    /\ UNCHANGED <<config, req, queries>>
    /\ UNCHANGED <<aggVars, valVars, clientVars, storeVars>>

\* withAuth: requireAuth(), then the 401 or the wrapped handler
WithAuthGuard ==
    /\ pc = "guard"
    /\ req.endpoint \in WithAuthEndpoints
    /\ \E outcome \in GetUserOutcomes(req) :
          /\ cookiesSet' = (config.supabaseEnv /\ outcome.setAll)
          /\ LET resolved == getAuthenticatedUser(outcome)
             IN  IF resolved = NoUser
                 THEN /\ resp' = UnauthorizedResponse
                      /\ pc' = "done"
                      /\ steps' = steps \o << "guard", "respond" >>
                      /\ UNCHANGED <<user, handlerInvoked>>
                 ELSE /\ user' = resolved
                      /\ handlerInvoked' = TRUE
                      /\ pc' = "handler"
                      /\ steps' = Append(steps, "guard")
                      /\ UNCHANGED resp
    /\ UNCHANGED <<config, req, queries>>
    /\ UNCHANGED <<aggVars, valVars, clientVars, storeVars>>

\* UTF-16 code units of the characters of a date string
CharCode(c) == IF c = "-" THEN 45 ELSE IF c = "/" THEN 47 ELSE 48 + DigitValue(c)

\* a > b on strings
RECURSIVE StrGreater(_, _)
StrGreater(a, b) ==
    IF a = <<>> THEN FALSE
    ELSE IF b = <<>> THEN TRUE
    ELSE IF Head(a) = Head(b) THEN StrGreater(Tail(a), Tail(b))
    ELSE CharCode(Head(a)) > CharCode(Head(b))

\* startDate && endDate && startDate > endDate
InvalidDateRange(r) ==
    LET startDate == validateDateParam(r.startDate)
        endDate   == validateDateParam(r.endDate)
    IN  ~Falsy(startDate) /\ ~Falsy(endDate) /\ StrGreater(startDate, endDate)

\* variant: the edge route checks the date range before it authenticates
EdgeGuardValidatesFirst ==
    /\ pc = "guard"
    /\ req.endpoint = "metrics_daily"
    /\ IF InvalidDateRange(req)
       THEN /\ resp' = [ status |-> 400,
                         body |-> [ success |-> FALSE,
                                    error |-> "Invalid date range: startDate must be before or equal to endDate" ] ]
            /\ pc' = "done"
            /\ steps' = steps \o << "validate", "respond" >>
            /\ UNCHANGED <<user, handlerInvoked, cookiesSet>>
       ELSE IF ~config.supabaseEnv
            THEN /\ resp' = [ status |-> 500,
                              body |-> [ success |-> FALSE,
                                         error |-> "Server configuration error" ] ]
                 /\ pc' = "done"
                 /\ steps' = Append(steps, "respond")
                 /\ UNCHANGED <<user, handlerInvoked, cookiesSet>>
            ELSE \E outcome \in GetUserOutcomes(req), thrown \in ErrorSamples :
                 /\ cookiesSet' = outcome.setAll
                 /\
                   IF outcome.throws
                   THEN /\ resp' =
                             [ status |-> 500,
                               body |-> [ success |-> FALSE,
                                          error |-> sanitizeError(thrown,
                                             "An error occurred while fetching daily metrics") ] ]
                        /\ pc' = "done"
                        /\ steps' = steps \o << "guard", "respond" >>
                        /\ UNCHANGED <<user, handlerInvoked>>
                   ELSE IF outcome.error \/ outcome.user = NoUser
                   THEN /\ resp' = EdgeUnauthorizedResponse
                        /\ pc' = "done"
                        /\ steps' = steps \o << "guard", "respond" >>
                        /\ UNCHANGED <<user, handlerInvoked>>
                   ELSE /\ user' = outcome.user
                        /\ handlerInvoked' = TRUE
                        /\ pc' = "handler"
                        /\ steps' = Append(steps, "guard")
                        /\ UNCHANGED resp
    /\ UNCHANGED <<config, req, queries>>
    /\ UNCHANGED <<aggVars, valVars, clientVars, storeVars>>

\* the edge route up to its authentication check
EdgeGuard ==
    /\ pc = "guard"
    /\ req.endpoint = "metrics_daily"
    /\ IF ~config.supabaseEnv
       THEN /\ resp' = [ status |-> 500,
                         body |-> [ success |-> FALSE,
                                    error |-> "Server configuration error" ] ]
            /\ pc' = "done"
            /\ steps' = Append(steps, "respond")
            /\ UNCHANGED <<user, handlerInvoked, cookiesSet>>
       ELSE \E outcome \in GetUserOutcomes(req), thrown \in ErrorSamples :
            /\ cookiesSet' = outcome.setAll
            /\
              IF outcome.throws
              THEN /\ resp' =
                        [ status |-> 500,
                          body |-> [ success |-> FALSE,
                                     error |-> sanitizeError(thrown,
                                        "An error occurred while fetching daily metrics") ] ]
                   /\ pc' = "done"
                   /\ steps' = steps \o << "guard", "respond" >>
                   /\ UNCHANGED <<user, handlerInvoked>>
              ELSE IF outcome.error \/ outcome.user = NoUser
              THEN /\ resp' = EdgeUnauthorizedResponse
                   /\ pc' = "done"
                   /\ steps' = steps \o << "guard", "respond" >>
                   /\ UNCHANGED <<user, handlerInvoked>>
              ELSE /\ user' = outcome.user
                   /\ handlerInvoked' = TRUE
                   /\ pc' = "handler"
                   /\ steps' = Append(steps, "guard")
                   /\ UNCHANGED resp
    /\ UNCHANGED <<config, req, queries>>
    /\ UNCHANGED <<aggVars, valVars, clientVars, storeVars>>

\* variant: a user_id in the query string selects the owner
OwnerOfParam(principal, r) == IF r.user_id # "none" THEN r.user_id ELSE principal

\* the user id a route filters its rows by: .eq('user_id', user.id)
OwnerOf(principal, r) == principal

OwnerFilter(principal, r) ==
    << [ column |-> "user_id", op |-> "eq", value |-> OwnerOf(principal, r) ] >>

\* if (value) query = query.<op>(column, value)
OptionalFilter(column, op, value) ==
    IF Falsy(value) THEN <<>>
    ELSE << [ column |-> column, op |-> op, value |-> value ] >>

\* variant: 'all' is filtered on like any other member of the allow-list
OptionalChoiceFilterAll(column, value) ==
    IF Falsy(value) THEN <<>>
    ELSE << [ column |-> column, op |-> "eq", value |-> value ] >>

\* if (value && value !== 'all') query = query.eq(column, value)
OptionalChoiceFilter(column, value) ==
    IF Falsy(value) \/ value = Str_all THEN <<>>
    ELSE << [ column |-> column, op |-> "eq", value |-> value ] >>

\* variant: the parameters go into the filters as the request carries them
PostsQueryRaw(principal, r) ==
    [ table   |-> "posts",
      filters |-> OwnerFilter(principal, r)
                    \o OptionalChoiceFilter("platform", r.platform)
                    \o OptionalChoiceFilter("media_type", r.mediaType)
                    \o OptionalFilter("posted_at", "gte", r.startDate)
                    \o OptionalFilter("posted_at", "lte", r.endDate),
      ordered |-> FALSE ]

\* the query GET /api/posts builds from the validated parameters
PostsQuery(principal, r) ==
    LET platform  == validateStringParam(r.platform, ALLOWED_PLATFORMS)
        mediaType == validateStringParam(r.mediaType, ALLOWED_MEDIA_TYPES)
        startDate == validateDateParam(r.startDate)
        endDate   == validateDateParam(r.endDate)
    IN  [ table   |-> "posts",
          filters |-> OwnerFilter(principal, r)
                        \o OptionalChoiceFilter("platform", platform)
                        \o OptionalChoiceFilter("media_type", mediaType)
                        \o OptionalFilter("posted_at", "gte", startDate)
                        \o OptionalFilter("posted_at", "lte", endDate),
          ordered |-> FALSE ]

\* the query GET /api/analytics/summary builds
SummaryQuery(principal, r) ==
    [ table   |-> "posts",
      filters |-> OwnerFilter(principal, r),
      ordered |-> FALSE ]

\* variant: the rows come back in storage order
DailyMetricsQueryUnordered(principal, r) ==
    LET startDate == validateDateParam(r.startDate)
        endDate   == validateDateParam(r.endDate)
    IN  [ table   |-> "daily_metrics",
          filters |-> OwnerFilter(principal, r)
                        \o OptionalFilter("date", "gte", startDate)
                        \o OptionalFilter("date", "lte", endDate),
          ordered |-> FALSE ]

\* the query of GET /api/daily-metrics and of GET /api/metrics/daily
DailyMetricsQuery(principal, r) ==
    LET startDate == validateDateParam(r.startDate)
        endDate   == validateDateParam(r.endDate)
    IN  [ table   |-> "daily_metrics",
          filters |-> OwnerFilter(principal, r)
                        \o OptionalFilter("date", "gte", startDate)
                        \o OptionalFilter("date", "lte", endDate),
          ordered |-> TRUE ]

\* the handler of a route validates the parameters and builds its query
BuildQuery(endpoint, query) ==
    /\ pc = "handler"
    /\ req.endpoint = endpoint
    /\ queries' = Append(queries, query)
    /\ steps' = Append(steps, "validate")
    /\ pc' = "query"
    /\ UNCHANGED <<config, req, user, handlerInvoked, resp, cookiesSet>>
    /\ UNCHANGED <<aggVars, valVars, clientVars, storeVars>>

PostsBuild == BuildQuery("posts", PostsQuery(user, req))

SummaryBuild == BuildQuery("analytics_summary", SummaryQuery(user, req))

DailyMetricsBuild == BuildQuery("daily_metrics", DailyMetricsQuery(user, req))

\* the edge route rejects a reversed date range before it builds the query
MetricsDailyBuild ==
    /\ pc = "handler"
    /\ req.endpoint = "metrics_daily"
    /\ IF InvalidDateRange(req)
       THEN
         /\ resp' = [ status |-> 400,
                      body |-> [ success |-> FALSE,
                                 error |-> "Invalid date range: startDate must be before or equal to endDate" ] ]
         /\ steps' = steps \o << "validate", "respond" >>
         /\ pc' = "done"
         /\ UNCHANGED <<config, req, user, handlerInvoked, queries, cookiesSet>>
         /\ UNCHANGED <<aggVars, valVars, clientVars, storeVars>>
       ELSE BuildQuery("metrics_daily", DailyMetricsQuery(user, req))

\* const { data, error } = await query: rows, an error object, or an exception
QueryOutcomes == { "ok", "error", "throws" }

\* the response of a route once its query has been awaited; withSuccess tells
\* whether the route's error bodies carry success: false
FetchResponse(outcome, data, thrown, failedMessage, genericMessage, withSuccess) ==
    IF outcome = "ok"
    THEN [ status |-> 200, body |-> [ success |-> TRUE, data |-> data ] ]
    ELSE LET message == IF outcome = "error" THEN failedMessage
                        ELSE sanitizeError(thrown, genericMessage)
         IN  IF withSuccess
             THEN [ status |-> 500, body |-> [ success |-> FALSE, error |-> message ] ]
             ELSE [ status |-> 500, body |-> [ error |-> message ] ]

\* a route awaits its query and answers
Fetch(endpoint, failedMessage, genericMessage, withSuccess) ==
    /\ pc = "query"
    /\ req.endpoint = endpoint
    /\ \E outcome \in QueryOutcomes, thrown \in ErrorSamples :
          resp' = FetchResponse(outcome, RunQuery(queries[Len(queries)]), thrown,
                                failedMessage, genericMessage, withSuccess)
    /\ steps' = steps \o << "fetch", "respond" >>
    /\ pc' = "done"
    /\ UNCHANGED <<config, req, user, handlerInvoked, queries, cookiesSet>>
    /\ UNCHANGED <<aggVars, valVars, clientVars, storeVars>>

PostsFetch ==
    Fetch("posts", "Failed to fetch posts",
          "An error occurred while fetching posts", FALSE)

DailyMetricsFetch ==
    Fetch("daily_metrics", "Failed to fetch daily metrics",
          "An error occurred while fetching daily metrics", FALSE)

MetricsDailyFetch ==
    Fetch("metrics_daily", "Failed to fetch daily metrics",
          "An error occurred while fetching daily metrics", TRUE)

\* the summary route awaits its query, aggregates the rows and answers
SummaryFetch ==
    /\ pc = "query"
    /\ req.endpoint = "analytics_summary"
    /\ \E outcome \in QueryOutcomes, thrown \in ErrorSamples, t \in NowSamples :
          LET rows == RunQuery(queries[Len(queries)])
          IN  IF outcome = "ok"
              THEN /\ posts' = rows
                   /\ now' = t
                   /\ views' = ViewsFor(rows, t)
                   /\ metrics' = MetricsFor(rows, t)
                   /\ summary' = AnalyticsSummary(rows, t)
                   /\ aggDone' = TRUE
                   /\ resp' = [ status |-> 200,
                                body |-> [ success |-> TRUE,
                                           data |-> AnalyticsSummary(rows, t) ] ]
                   /\ steps' = steps \o << "fetch", "aggregate", "respond" >>
              ELSE /\ resp' = FetchResponse(outcome, rows, thrown,
                                            "Failed to fetch analytics data",
                                            "Failed to fetch analytics summary", TRUE)
                   /\ steps' = steps \o << "fetch", "respond" >>
                   /\ UNCHANGED aggVars
    /\ pc' = "done"
    /\ UNCHANGED <<config, req, user, handlerInvoked, queries, cookiesSet>>
    /\ UNCHANGED <<valVars, clientVars, storeVars>>

\* the response has been sent; the route is ready for the next request
Finish ==
    /\ pc = "done"
    /\ pc' = "idle"
    /\ req' = NoReq
    /\ user' = NoUser
    /\ handlerInvoked' = FALSE
    /\ queries' = <<>>
    /\ resp' = NoResp
    /\ steps' = <<>>
    /\ cookiesSet' = FALSE
    /\ ResetAgg
    /\ UNCHANGED config
    /\ UNCHANGED <<valVars, clientVars, storeVars>>

-----------------------------------------------------------------------------
(* POST /api/auth/login *)

LowerCase ==
    << "a", "b", "c", "d", "e", "f", "g", "h", "i", "j", "k", "l", "m",
       "n", "o", "p", "q", "r", "s", "t", "u", "v", "w", "x", "y", "z" >>

UpperCase ==
    << "A", "B", "C", "D", "E", "F", "G", "H", "I", "J", "K", "L", "M",
       "N", "O", "P", "Q", "R", "S", "T", "U", "V", "W", "X", "Y", "Z" >>

\* str.toLowerCase()
ToLowerCase(str) ==
    [ k \in 1..Len(str) |->
        IF \E n \in 1..26 : UpperCase[n] = str[k]
        THEN LowerCase[CHOOSE n \in 1..26 : UpperCase[n] = str[k]]
        ELSE str[k] ]

\* /^[^\s@]+@[^\s@]+\.[^\s@]+$/.test(str)
MatchesEmailPattern(str) ==
    \E at \in 2..(Len(str) - 3) :
        /\ str[at] = "@"
        /\ \A k \in (1..Len(str)) \ { at } : str[k] \notin Whitespace \cup { "@" }
        /\ \E dot \in (at + 2)..(Len(str) - 1) : str[dot] = "."

Str_user1_email == <<"a", "@", "b", ".", "c">>

Str_user1_password == <<"p", "w", "1">>

\* what the body of a login request can carry as email
EmailSamples ==
    { NullParam, NonString, Str_user1_email,
      <<" ", "A", "@", "b", ".", "c", " ">>,
      <<"x", "@", "y", ".", "z">>, <<"a", "@", "b">>, <<"a", " ", "@", "b", ".", "c">>,
      <<>>, <<"a", "@", ".", "c">>, <<"a", "@", "b", "@", "c", ".", "d">> }

\* and as password
PasswordSamples ==
    { NullParam, <<>>, NonString, << " " >>, Str_user1_password, <<"n", "o">> }

\* what supabase.auth.signInWithPassword can answer: the user when the
\* credentials are those of an account, an error, neither, or an exception
SignInOutcomes(email, password) ==
    { "error", "no_user", "throws" }
        \cup (IF email = Str_user1_email /\ password = Str_user1_password
              THEN { "user" } ELSE {})

\* the response of the login handler
LoginResponse(r, outcome, thrown) ==
    IF Falsy(r.email) \/ Falsy(r.password)
    THEN [ status |-> 400, body |-> [ error |-> "Email and password are required" ] ]
    ELSE IF ~IsString(r.email) \/ ~MatchesEmailPattern(Trim(r.email))
    THEN [ status |-> 400, body |-> [ error |-> "Invalid email format" ] ]
    ELSE IF ~IsString(r.password) \/ Len(Trim(r.password)) = 0
    THEN [ status |-> 400, body |-> [ error |-> "Password is required" ] ]
    ELSE IF ~config.supabaseEnv
    THEN [ status |-> 500,
           body |-> [ error |-> sanitizeError(
                        [ isError |-> TRUE,
                          message |-> "Missing Supabase environment variables. Please check your .env.local file." ],
                        "An error occurred during login") ] ]
    ELSE IF outcome = "throws"
    THEN [ status |-> 500,
           body |-> [ error |-> sanitizeError(thrown, "An error occurred during login") ] ]
    ELSE IF outcome = "error"
    THEN [ status |-> 401, body |-> [ error |-> "Invalid email or password" ] ]
    ELSE IF outcome = "no_user"
    THEN [ status |-> 401, body |-> [ error |-> "Authentication failed" ] ]
    ELSE [ status |-> 200,
           body |-> [ success |-> TRUE,
                      user |-> [ id |-> "u1", email |-> ToLowerCase(Trim(r.email)),
                                 created_at |-> 1 ] ] ]

\* a login request arrives
LoginRequest ==
    /\ pc = "idle"
    /\ \E email \in EmailSamples, password \in PasswordSamples :
          req' = [ endpoint |-> "auth_login", email |-> email, password |-> password ]
    /\ pc' = "login"
    /\ user' = NoUser
    /\ handlerInvoked' = FALSE
    /\ queries' = <<>>
    /\ resp' = NoResp
    /\ steps' = <<>>
    /\ cookiesSet' = FALSE
    /\ ResetAgg
    /\ UNCHANGED config
    /\ UNCHANGED <<valVars, clientVars, storeVars>>

\* POST of the login route: input checks, signInWithPassword, the response
Login ==
    /\ pc = "login"
    /\ \E thrown \in ErrorSamples :
       \E outcome \in SignInOutcomes(IF IsString(req.email)
                                     THEN ToLowerCase(Trim(req.email)) ELSE req.email,
                                     req.password) :
          resp' = LoginResponse(req, outcome, thrown)
    /\ steps' = steps \o << "login", "respond" >>
    /\ pc' = "done"
    /\ UNCHANGED <<config, req, user, handlerInvoked, queries, cookiesSet>>
    /\ UNCHANGED <<aggVars, valVars, clientVars, storeVars>>

-----------------------------------------------------------------------------
(* POST /api/auth/signup *)

\* a validator of credentials found nothing wrong
NullMessage == "<null>"

\* validateEmail(email)
validateEmail(email) ==
    IF Falsy(email) THEN "Email is required"
    ELSE IF ~IsString(email) THEN "Email must be a string"
    ELSE IF ~MatchesEmailPattern(Trim(email)) THEN "Invalid email format"
    ELSE NullMessage

\* validatePassword(password)
validatePassword(password) ==
    IF Falsy(password) THEN "Password is required"
    ELSE IF ~IsString(password) THEN "Password must be a string"
    ELSE IF Len(password) < 6 THEN "Password must be at least 6 characters"
    ELSE IF Len(password) > 128 THEN "Password is too long"
    ELSE NullMessage

\* variant: the password is looked at before the email
validateSignupCredentialsPasswordFirst(email, password) ==
    IF validatePassword(password) # NullMessage THEN validatePassword(password)
    ELSE IF validateEmail(email) # NullMessage THEN validateEmail(email)
    ELSE NullMessage

\* validateSignupCredentials(email, password)
validateSignupCredentials(email, password) ==
    IF validateEmail(email) # NullMessage THEN validateEmail(email)
    ELSE IF validatePassword(password) # NullMessage THEN validatePassword(password)
    ELSE NullMessage

\* a password of n characters
PasswordOfLength(n) == [ k \in 1..n |-> "x" ]

\* what the body of a signup request can carry as password: lengths on both sides
\* of the two limits, blanks only, nothing, a non-string
SignupPasswordSamples ==
    { NullParam, <<>>, NonString, PasswordOfLength(5), PasswordOfLength(6),
      PasswordOfLength(128), PasswordOfLength(129), [ k \in 1..6 |-> " " ] }

\* error messages of supabase.auth.signUp, as words
SignUpErrorSamples ==
    { << "User", "already registered" >>, << "Weak", "password" >>,
      << "Invalid", "email" >>, << "Rate limit exceeded" >> }

\* error.message.includes(text)
MessageIncludes(message, text) == \E k \in 1..Len(message) : message[k] = text

\* the message the route gives for an error of signUp
SignUpErrorMessage(message) ==
    IF MessageIncludes(message, "already registered")
    THEN "An account with this email already exists"
    ELSE IF MessageIncludes(message, "password")
    THEN "Password does not meet requirements"
    ELSE IF MessageIncludes(message, "email")
    THEN "Invalid email address"
    ELSE "Signup failed. Please try again."

\* what supabase.auth.signUp can answer: an error, no user, a user with or without
\* a session and a confirmed email, or an exception
SignUpOutcomes ==
    [ kind : { "error" }, message : SignUpErrorSamples ]
        \cup { [ kind |-> "no_user" ], [ kind |-> "throws" ] }
        \cup [ kind : { "user" }, session : BOOLEAN, confirmed : BOOLEAN ]

\* the response of the signup handler once the credentials have passed
SignUpResponse(r, outcome, thrown) ==
    IF ~config.supabaseEnv
    THEN [ status |-> 500,
           body |-> [ error |-> sanitizeError(
                        [ isError |-> TRUE,
                          message |-> "Missing Supabase environment variables. Please check your .env.local file." ],
                        "An error occurred during signup") ] ]
    ELSE IF outcome.kind = "throws"
    THEN [ status |-> 500,
           body |-> [ error |-> sanitizeError(thrown, "An error occurred during signup") ] ]
    ELSE IF outcome.kind = "error"
    THEN [ status |-> 400, body |-> [ error |-> SignUpErrorMessage(outcome.message) ] ]
    ELSE IF outcome.kind = "no_user"
    THEN [ status |-> 500, body |-> [ error |-> "Failed to create user" ] ]
    ELSE [ status |-> 200,
           body |-> [ success |-> TRUE,
                      user |-> [ id |-> "u3", email |-> ToLowerCase(Trim(r.email)),
                                 created_at |-> 1,
                                 email_confirmed_at |->
                                    IF outcome.confirmed THEN 1 ELSE NULL ],
                      session |-> outcome.session,
                      requiresEmailConfirmation |->
                          ~outcome.session /\ ~outcome.confirmed ] ]

\* a signup request arrives
SignupRequest ==
    /\ pc = "idle"
    /\ \E email \in EmailSamples, password \in SignupPasswordSamples :
          req' = [ endpoint |-> "auth_signup", email |-> email, password |-> password ]
    /\ pc' = "signup"
    /\ user' = NoUser
    /\ handlerInvoked' = FALSE
    /\ queries' = <<>>
    /\ resp' = NoResp
    /\ steps' = <<>>
    /\ cookiesSet' = FALSE
    /\ ResetAgg
    /\ UNCHANGED config
    /\ UNCHANGED <<valVars, clientVars, storeVars>>

\* POST of the signup route: validateSignupCredentials, signUp, the response
Signup ==
    /\ pc = "signup"
    /\ LET validationError == validateSignupCredentials(req.email, req.password)
       IN  IF validationError # NullMessage
           THEN /\ resp' = [ status |-> 400, body |-> [ error |-> validationError ] ]
                /\ steps' = steps \o << "check", "respond" >>
           ELSE /\ \E outcome \in SignUpOutcomes, thrown \in ErrorSamples :
                      resp' = SignUpResponse(req, outcome, thrown)
                /\ steps' = steps \o << "check", "signUp", "respond" >>
    /\ pc' = "done"
    /\ UNCHANGED <<config, req, user, handlerInvoked, queries, cookiesSet>>
    /\ UNCHANGED <<aggVars, valVars, clientVars, storeVars>>

-----------------------------------------------------------------------------
(* The UI store *)

\* initialState of useUIStore; dates are days, null is NULL
initialState ==
    [ platformFilter  |-> "all",
      mediaTypeFilter |-> "all",
      dateRange       |-> [ start |-> NULL, end |-> NULL ],
      sortField       |-> "posted_at",
      sortOrder       |-> "desc",
      selectedPost    |-> NULL,
      chartViewType   |-> "line",
      sidebarOpen     |-> FALSE ]

\* set(partial) of zustand: the fields of partial replace those of the state
set(state, partial) ==
    [ f \in DOMAIN state |-> IF f \in DOMAIN partial THEN partial[f] ELSE state[f] ]

\* the store before any action
InitStore ==
    /\ ui = initialState
    /\ storeCall = [ name |-> "none", arg |-> NULL, before |-> initialState ]

\* an action of the store called with arg, which hands partial to set
StoreAction(name, arg, partial) ==
    /\ ui' = set(ui, partial)
    /\ storeCall' = [ name |-> name, arg |-> arg, before |-> ui ]

\* the values of the types of the store
PlatformValues == { "instagram", "tiktok", "all" }

MediaTypeValues == { "image", "video", "carousel", "all" }

DateRangeValues == [ start : { NULL, 1 }, end : { NULL, 1 } ]

SortFieldValues == { "posted_at", "likes", "engagement_rate", "reach" }

SortOrderValues == { "asc", "desc" }

\* a post stands for its number
SelectedPostValues == { NULL, 1 }

ChartViewTypeValues == { "line", "area" }

\* what a step of the store leaves alone
StoreFrame == UNCHANGED <<reqVars, aggVars, valVars, clientVars>>

setPlatformFilter ==
    /\ \E platform \in PlatformValues :
          StoreAction("setPlatformFilter", platform, [ platformFilter |-> platform ])
    /\ StoreFrame

setMediaTypeFilter ==
    /\ \E mediaType \in MediaTypeValues :
          StoreAction("setMediaTypeFilter", mediaType, [ mediaTypeFilter |-> mediaType ])
    /\ StoreFrame

setDateRange ==
    /\ \E range \in DateRangeValues :
          StoreAction("setDateRange", range, [ dateRange |-> range ])
    /\ StoreFrame

setSortField ==
    /\ \E field \in SortFieldValues :
          StoreAction("setSortField", field, [ sortField |-> field ])
    /\ StoreFrame

setSortOrder ==
    /\ \E order \in SortOrderValues :
          StoreAction("setSortOrder", order, [ sortOrder |-> order ])
    /\ StoreFrame

\* resetFilters: () => set({ platformFilter, mediaTypeFilter, dateRange }) of the
\* initial state only
resetFiltersOnly ==
    /\ StoreAction("resetFilters", NULL,
                   [ platformFilter  |-> initialState.platformFilter,
                     mediaTypeFilter |-> initialState.mediaTypeFilter,
                     dateRange       |-> initialState.dateRange ])
    /\ StoreFrame

\* resetFilters: () => set(initialState)
resetFilters ==
    /\ StoreAction("resetFilters", NULL, initialState)
    /\ StoreFrame

setSelectedPost ==
    /\ \E post \in SelectedPostValues :
          StoreAction("setSelectedPost", post, [ selectedPost |-> post ])
    /\ StoreFrame

setChartViewType ==
    /\ \E type \in ChartViewTypeValues :
          StoreAction("setChartViewType", type, [ chartViewType |-> type ])
    /\ StoreFrame

setSidebarOpen ==
    /\ \E open \in BOOLEAN :
          StoreAction("setSidebarOpen", open, [ sidebarOpen |-> open ])
    /\ StoreFrame

toggleSidebar ==
    /\ StoreAction("toggleSidebar", NULL, [ sidebarOpen |-> ~ui.sidebarOpen ])
    /\ StoreFrame

-----------------------------------------------------------------------------
(* The browser session *)

\* a browser that has not signed in, on the login page, its query cache empty
InitClient ==
    /\ session = NoUser
    /\ cache = {}
    /\ page = "login"
    /\ logoutCalls = 0

ConfigSamples ==
    [ nodeEnv : { "development", "production" }, supabaseEnv : BOOLEAN ]

InitReq ==
    /\ pc = "idle"
    /\ req = NoReq
    /\ user = NoUser
    /\ handlerInvoked = FALSE
    /\ queries = <<>>
    /\ resp = NoResp
    /\ steps = <<>>
    /\ cookiesSet = FALSE

Init ==
    /\ config \in ConfigSamples
    /\ InitReq
    /\ posts = <<>>
    /\ now = 0
    /\ views = NoViews
    /\ metrics = NoMetrics
    /\ summary = NoSummary
    /\ aggDone = FALSE
    /\ valCall = NoCall
    /\ valResult = NoResult
    /\ InitClient
    /\ InitStore

Next ==
    \/ Request
    \/ WithAuthGuard
    \/ EdgeGuard
    \/ PostsBuild
    \/ PostsFetch
    \/ SummaryBuild
    \/ SummaryFetch
    \/ DailyMetricsBuild
    \/ DailyMetricsFetch
    \/ MetricsDailyBuild
    \/ MetricsDailyFetch
    \/ LoginRequest
    \/ Login
    \/ SignupRequest
    \/ Signup
    \/ Finish

Spec == Init /\ [][Next]_vars

-----------------------------------------------------------------------------
(* The aggregation step of the summary handler *)

\* lines 105-245 of the handler: metrics of the three views, then the data object
Aggregate ==
    /\ ~aggDone
    /\ views' = ViewsFor(posts, now)
    /\ metrics' = MetricsFor(posts, now)
    /\ summary' = AnalyticsSummary(posts, now)
    /\ aggDone' = TRUE
    /\ UNCHANGED <<posts, now>>

InitAgg ==
    /\ config = [ nodeEnv |-> "production", supabaseEnv |-> TRUE ]
    /\ InitReq
    /\ IsPostList(posts)
    /\ now \in NowSamples
    /\ views = NoViews
    /\ metrics = NoMetrics
    /\ summary = NoSummary
    /\ aggDone = FALSE
    /\ valCall = NoCall
    /\ valResult = NoResult
    /\ InitClient
    /\ InitStore

NextAgg == Aggregate /\ UNCHANGED <<reqVars, valVars, clientVars, storeVars>>

SpecAgg == InitAgg /\ [][NextAgg]_vars

-----------------------------------------------------------------------------
(* One call of a query parameter validator *)

\* characters of the short arguments: a letter in both cases, a digit, the two
\* permitted punctuation marks, a space, a tab and a quote
Alphabet == { "a", "A", "1", "_", "-", " ", "\t", "'" }

ShortStrings == UNION { [ 1..n -> Alphabet ] : n \in 0..MaxLen }

\* date-like arguments: year, separator, month, separator, day, with and without
\* surrounding blanks
DateLikeStrings ==
    { pad \o year \o sep \o month \o sep \o day \o pad :
        pad   \in { <<>>, << " " >> },
        year  \in { <<"2", "0", "2", "4">>, <<"2", "0", "2", "3">>, <<"2", "4">> },
        sep   \in { << "-" >>, << "/" >> },
        month \in { <<"0", "0">>, <<"0", "1">>, <<"0", "2">>, <<"0", "4">>,
                    <<"1", "2">>, <<"1", "3">>, << "1" >> },
        day   \in { <<"0", "0">>, <<"0", "1">>, <<"1", "5">>, <<"2", "9">>,
                    <<"3", "0">>, <<"3", "1">>, <<"3", "2">>, << "5" >> } }

\* words of the allow-lists and of the sort order, exact, padded and in other case
WordStrings ==
    { Str_instagram, << " " >> \o Str_instagram \o << "\t" >>,
      <<"I", "n", "s", "t", "a", "g", "r", "a", "m">>, Str_facebook, Str_all,
      Str_video, Str_likes, Str_asc, Str_desc, Str_asc \o << " " >>,
      <<"A", "S", "C">>, <<"D", "e", "s", "c">>, <<"i", "n", "v", "a", "l", "i", "d">> }

ArgumentSamples ==
    ShortStrings \cup DateLikeStrings \cup WordStrings \cup { NullParam, NonString }

\* allowedValues arguments: left out, empty, the three lists of the module, the
\* list of the validator's tests and lists over Alphabet
AllowListSamples ==
    { Undefined, <<>>, ALLOWED_PLATFORMS, ALLOWED_MEDIA_TYPES, ALLOWED_POST_SORT_FIELDS,
      << Str_instagram, Str_facebook >>,
      << << "a" >>, <<"a", " ", "1">> >>,
      << << "A" >>, <<" ", "a">> >> }

\* validateStringParam(value, allowedValues) is called and returns
CallValidateStringParam ==
    /\ valCall.fn = "validateStringParam"
    /\ valResult = NoResult
    /\ valResult' = validateStringParam(valCall.value, valCall.allowedValues)
    /\ UNCHANGED <<valCall, reqVars, aggVars, clientVars, storeVars>>

\* validateDateParam(value) is called and returns
CallValidateDateParam ==
    /\ valCall.fn = "validateDateParam"
    /\ valResult = NoResult
    /\ valResult' = validateDateParam(valCall.value)
    /\ UNCHANGED <<valCall, reqVars, aggVars, clientVars, storeVars>>

\* validateSortOrder(value) is called and returns
CallValidateSortOrder ==
    /\ valCall.fn = "validateSortOrder"
    /\ valResult = NoResult
    /\ valResult' = validateSortOrder(valCall.value)
    /\ UNCHANGED <<valCall, reqVars, aggVars, clientVars, storeVars>>

InitVal ==
    /\ config = [ nodeEnv |-> "production", supabaseEnv |-> TRUE ]
    /\ InitReq
    /\ posts = <<>>
    /\ now = 0
    /\ views = NoViews
    /\ metrics = NoMetrics
    /\ summary = NoSummary
    /\ aggDone = FALSE
    /\ \E value \in ArgumentSamples :
          \/ \E allowedValues \in AllowListSamples :
                valCall = [ fn |-> "validateStringParam", value |-> value,
                            allowedValues |-> allowedValues ]
          \/ valCall = [ fn |-> "validateDateParam", value |-> value,
                         allowedValues |-> Undefined ]
          \/ valCall = [ fn |-> "validateSortOrder", value |-> value,
                         allowedValues |-> Undefined ]
    /\ valResult = NoResult
    /\ InitClient
    /\ InitStore

NextVal ==
    \/ CallValidateStringParam
    \/ CallValidateDateParam
    \/ CallValidateSortOrder

SpecVal == InitVal /\ [][NextVal]_vars

-----------------------------------------------------------------------------
(* One browser session: POST /api/auth/logout, the two logout controls, the  *)
(* login and signup forms and the data hooks of the dashboard.               *)

\* the user an accepted signup creates
NewUser == "u3"

\* the keys of queryKeys under which the hooks cache what they fetched
QueryKeys == { "posts", "analytics", "daily-metrics" }

\* what supabase.auth.signOut() can do: end the session, return an error (which
\* the route does not look at), or throw
SignOutOutcomes == { "ok", "error", "throws" }

\* try { createClient(); await signOut(); return {success: true} }
\* catch { return 500 {error: sanitizeError(...)} }
LogoutResponse(outcome, thrown) ==
    IF ~config.supabaseEnv
    THEN [ status |-> 500,
           body |-> [ error |-> sanitizeError(
                        [ isError |-> TRUE,
                          message |-> "Missing Supabase environment variables. Please check your .env.local file." ],
                        "An error occurred during logout") ] ]
    ELSE IF outcome = "throws"
    THEN [ status |-> 500,
           body |-> [ error |-> sanitizeError(thrown, "An error occurred during logout") ] ]
    ELSE [ status |-> 200, body |-> [ success |-> TRUE ] ]

\* the sessions the cookies can carry after the call: signOut that was not reached
\* or threw leaves them, signOut that returned an error has removed them or not
SessionAfterSignOut(outcome) ==
    IF ~config.supabaseEnv \/ outcome = "throws" THEN { session }
    ELSE IF outcome = "ok" THEN { NoUser }
    ELSE { session, NoUser }

\* what a step of the browser session leaves alone on the server side
ClientFrame ==
    UNCHANGED <<config, pc, req, user, handlerInvoked, queries, steps, cookiesSet, aggVars, valVars>>

\* one run of POST of the logout route
PostLogout ==
    /\ logoutCalls < MaxCalls
    /\ \E outcome \in SignOutOutcomes, thrown \in ErrorSamples :
          /\ resp' = LogoutResponse(outcome, thrown)
          /\ session' \in SessionAfterSignOut(outcome)
    /\ logoutCalls' = logoutCalls + 1

\* POST /api/auth/logout called by any client of the route
Logout ==
    /\ PostLogout
    /\ UNCHANGED <<cache, page, storeVars>>
    /\ ClientFrame

\* LogoutButton.handleLogout: the call, queryClient.clear(), to the login page;
\* a fetch that does not reach the server ends in the catch
LogoutButton_handleLogout ==
    /\ page = "dashboard"
    /\ \/ /\ PostLogout
          /\ cache' = {}
          /\ page' = "login"
       \/ /\ logoutCalls < MaxCalls
          /\ UNCHANGED <<session, cache, page, logoutCalls, resp>>
    /\ UNCHANGED storeVars
    /\ ClientFrame

\* Sidebar.handleLogout: setSidebarOpen(false), the call, to the login page
Sidebar_handleLogout ==
    /\ page = "dashboard"
    /\ StoreAction("setSidebarOpen", FALSE, [ sidebarOpen |-> FALSE ])
    /\ \/ /\ PostLogout
          /\ page' = "login"
          /\ UNCHANGED cache
       \/ /\ logoutCalls < MaxCalls
          /\ UNCHANGED <<session, cache, page, logoutCalls, resp>>
    /\ ClientFrame

\* LoginPage.handleSubmit with the credentials of who: a response that is not ok
\* shows the error; otherwise queryClient.clear() and on to the dashboard
LoginPage_handleSubmit ==
    /\ page = "login"
    /\ \E who \in Users, thrown \in ErrorSamples :
       \E outcome \in SignInOutcomes(Str_user1_email, Str_user1_password) :
          LET r == LoginResponse([ email |-> Str_user1_email,
                                   password |-> Str_user1_password ], outcome, thrown)
          IN  IF r.status = 200
              THEN /\ resp' = [ r EXCEPT !.body.user.id = who ]
                   /\ session' = who
                   /\ cache' = {}
                   /\ page' = "dashboard"
              ELSE /\ resp' = r
                   /\ UNCHANGED <<session, cache, page>>
    /\ logoutCalls' = 0
    /\ UNCHANGED storeVars
    /\ ClientFrame

\* the passwords typed into the signup form
SignupFormPasswords == { PasswordOfLength(5), PasswordOfLength(6), PasswordOfLength(129) }

\* SignupPage.handleSubmit: the two checks of the form, the call, then the
\* dashboard when the response carries a session and the login page when not
SignupPage_handleSubmit ==
    /\ page = "signup"
    /\ \E password \in SignupFormPasswords, confirmed \in BOOLEAN :
          IF ~confirmed \/ Len(password) < 6
          THEN UNCHANGED <<session, cache, page, resp>>
          ELSE LET validationError == validateSignupCredentials(Str_user1_email, password)
               IN  IF validationError # NullMessage
                   THEN /\ resp' = [ status |-> 400, body |-> [ error |-> validationError ] ]
                        /\ UNCHANGED <<session, cache, page>>
                   ELSE \E outcome \in SignUpOutcomes, thrown \in ErrorSamples :
                           LET r == SignUpResponse([ email |-> Str_user1_email,
                                                     password |-> password ], outcome, thrown)
                           IN  /\ resp' = r
                               /\ IF r.status # 200
                                  THEN UNCHANGED <<session, page>>
                                  ELSE IF r.body.session
                                  THEN session' = NewUser /\ page' = "dashboard"
                                  ELSE page' = "login" /\ UNCHANGED session
                               /\ UNCHANGED cache
    /\ logoutCalls' = 0
    /\ UNCHANGED storeVars
    /\ ClientFrame

\* the link between the login page and the signup page (client side navigation)
FollowLink ==
    /\ page \in { "login", "signup" }
    /\ page' = IF page = "login" THEN "signup" ELSE "login"
    /\ UNCHANGED <<session, cache, logoutCalls, resp, storeVars>>
    /\ ClientFrame

\* a hook of the dashboard fetches for the signed-in user and caches the data
\* under its key
FetchQuery ==
    /\ page = "dashboard"
    /\ session # NoUser
    /\ \E key \in QueryKeys :
          cache' = { e \in cache : e.key # key } \cup { [ key |-> key, owner |-> session ] }
    /\ logoutCalls' = 0
    /\ UNCHANGED <<session, page, resp, storeVars>>
    /\ ClientFrame

\* the browser loads /dashboard anew: a new query client, and requireAuthForPage
\* redirects to the login page without a user
LoadDashboard ==
    /\ cache' = {}
    /\ page' = IF session # NoUser THEN "dashboard" ELSE "login"
    /\ logoutCalls' = 0
    /\ UNCHANGED <<session, resp, storeVars>>
    /\ ClientFrame

InitSession ==
    /\ config \in ConfigSamples
    /\ InitReq
    /\ posts = <<>>
    /\ now = 0
    /\ views = NoViews
    /\ metrics = NoMetrics
    /\ summary = NoSummary
    /\ aggDone = FALSE
    /\ valCall = NoCall
    /\ valResult = NoResult
    /\ InitClient
    /\ InitStore

NextSession ==
    \/ Logout
    \/ LogoutButton_handleLogout
    \/ Sidebar_handleLogout
    \/ LoginPage_handleSubmit
    \/ SignupPage_handleSubmit
    \/ FollowLink
    \/ FetchQuery
    \/ LoadDashboard

SpecSession == InitSession /\ [][NextSession]_vars

-----------------------------------------------------------------------------
(* The UI store on its own *)

InitStoreOnly ==
    /\ config = [ nodeEnv |-> "production", supabaseEnv |-> TRUE ]
    /\ InitReq
    /\ posts = <<>>
    /\ now = 0
    /\ views = NoViews
    /\ metrics = NoMetrics
    /\ summary = NoSummary
    /\ aggDone = FALSE
    /\ valCall = NoCall
    /\ valResult = NoResult
    /\ InitClient
    /\ InitStore

NextStore ==
    \/ setPlatformFilter
    \/ setMediaTypeFilter
    \/ setDateRange
    \/ setSortField
    \/ setSortOrder
    \/ resetFilters
    \/ setSelectedPost
    \/ setChartViewType
    \/ setSidebarOpen
    \/ toggleSidebar

SpecStore == InitStoreOnly /\ [][NextStore]_vars

-----------------------------------------------------------------------------
(* Properties of the access guard *)

\* the request has been answered without a principal having been resolved
AnsweredWithoutPrincipal == pc = "done" /\ req.endpoint \in Endpoints /\ user = NoUser

\* C1: on every protected endpoint a request for which no principal is resolved is
\* answered with status 401 and the body {error: "Unauthorized"}, nothing else.
\* (Stated for a configured server whose auth service answers; failures of the
\* resolution itself are C4.)
C1_UnauthorizedBody ==
    (AnsweredWithoutPrincipal /\ config.supabaseEnv /\ req.authBackend = "up") =>
        resp = [ status |-> 401, body |-> [ error |-> "Unauthorized" ] ]

\* C2: no datastore query is built or run before the principal is resolved; when
\* no principal is resolved the route handler is never invoked and no query on
\* posts or daily_metrics exists.
C2_NoAccessBeforeAuth ==
    /\ user = NoUser => (~handlerInvoked /\ queries = <<>>)
    /\ user = NoUser =>
          \A i \in 1..Len(steps) : steps[i] \notin { "validate", "fetch", "aggregate" }
    /\ (req.endpoint \in Endpoints /\ resp.status = 200) => user \in Users

\* an unauthenticated request answered while the datastore was never touched
C2_Witness ==
    /\ AnsweredWithoutPrincipal
    /\ req.endpoint = "posts"
    /\ req.credential = "expired"
    /\ resp.status = 401
    /\ ~handlerInvoked
    /\ queries = <<>>

\* the filters of a query on the owner column
OwnerFiltersOf(query) ==
    { k \in 1..Len(query.filters) : query.filters[k].column = "user_id" }

\* the rows a successful response carries (the summary is computed from posts)
RowsReturned ==
    IF req.endpoint = "analytics_summary" THEN posts ELSE resp.body.data

\* the user whose session the cookie of the request carries
SessionUser == IF req.credential = "refreshable" THEN RefreshableUser ELSE req.credential

\* C3: every query carries the owner filter user_id = id of the principal resolved
\* for this request, whatever the request's parameters carry, and no row returned
\* has another owner.
C3_OwnerFilter ==
    /\ \A i \in 1..Len(queries) :
          /\ user \in Users
          /\ user = SessionUser
          /\ OwnerFiltersOf(queries[i]) # {}
          /\ \A k \in OwnerFiltersOf(queries[i]) :
                queries[i].filters[k] = [ column |-> "user_id", op |-> "eq", value |-> user ]
    /\ (pc = "done" /\ req.endpoint \in Endpoints /\ resp.status = 200) =>
          \A k \in 1..Len(RowsReturned) : RowsReturned[k].user_id = user

\* a caller who names another user in the query string and is served own rows
C3_Witness ==
    /\ pc = "done"
    /\ req.endpoint \in Endpoints
    /\ resp.status = 200
    /\ req.user_id \in Users
    /\ req.user_id # user
    /\ Len(RowsReturned) > 0
    /\ \A k \in 1..Len(RowsReturned) : RowsReturned[k].user_id = SessionUser

\* C4: the guard fails closed: a missing, expired or malformed token, an
\* unreachable auth backend and an exception during resolution all get the 401 a
\* request without principal gets, with nothing in the response telling them apart.
C4_FailsClosed ==
    (AnsweredWithoutPrincipal /\ config.supabaseEnv) =>
        /\ resp.status = 401
        /\ resp.body.error = "Unauthorized"

-----------------------------------------------------------------------------
(* Properties of the aggregation.  They are stated over index sets of the   *)
(* fetched rows, not through the operators above.                           *)

Idx(postList) == 1..Len(postList)

\* an absent counter counts as 0
Counted(x) == IF x = NULL THEN 0 ELSE x

RECURSIVE RefSum(_, _, _)
RefSum(S, postList, field) ==
    IF S = {} THEN 0
    ELSE LET i == CHOOSE i \in S : TRUE
         IN  Counted(postList[i][field]) + RefSum(S \ {i}, postList, field)

RefEngagement(post) ==
    Counted(post.likes) + Counted(post.comments)
        + Counted(post.shares) + Counted(post.saves)

RefEngagements(S, postList) ==
    RefSum(S, postList, "likes") + RefSum(S, postList, "comments")
        + RefSum(S, postList, "shares") + RefSum(S, postList, "saves")

\* the mean rate over the rows of S that have a rate, 0 when none has
RefMeanRate(S, postList) ==
    LET W == { i \in S : postList[i].engagement_rate # NULL }
    IN  IF W = {} THEN Rat(0, 1)
        ELSE Rat(RefSum(W, postList, "engagement_rate"), Cardinality(W))

\* r is the multiple of 1/k nearest to x
NearestMultiple(r, x, k) ==
    /\ r.d > 0
    /\ (k * r.n) % r.d = 0
    /\ 2 * k * Abs(r.n * x.d - x.n * r.d) <= r.d * x.d

RecentIdx == { i \in Idx(posts) : posts[i].posted_at >= now - 30 }

PreviousIdx ==
    { i \in Idx(posts) : posts[i].posted_at >= now - 60 /\ posts[i].posted_at < now - 30 }

\* the six headline totals are those of the recent window
HeadlinesFromRecent ==
    /\ summary.totalPosts = Cardinality(RecentIdx)
    /\ summary.totalViews = RefSum(RecentIdx, posts, "impressions")
    /\ summary.totalReach = RefSum(RecentIdx, posts, "reach")
    /\ summary.totalLikes = RefSum(RecentIdx, posts, "likes")
    /\ summary.totalComments = RefSum(RecentIdx, posts, "comments")
    /\ summary.totalShares = RefSum(RecentIdx, posts, "shares")

\* the top post is a row whose engagement is the largest of all rows
TopPostFromAll ==
    /\ Len(summary.topPost) = 1
    /\ \E i \in Idx(posts) :
          /\ summary.topPost[1].id = posts[i].id
          /\ summary.topPost[1].engagement = RefEngagement(posts[i])
          /\ \A j \in Idx(posts) : RefEngagement(posts[j]) <= RefEngagement(posts[i])

\* C5 as stated: for a non-empty post set the six headline totals are those of the
\* recent window, totalEngagements and averageEngagementRate equal the metrics of
\* all posts, and topPost is selected from all posts.
C5_SummaryAsStated ==
    (aggDone /\ Len(posts) > 0) =>
        /\ HeadlinesFromRecent
        /\ summary.totalEngagements = RefEngagements(Idx(posts), posts)
        /\ RatEq(summary.averageEngagementRate, RefMeanRate(Idx(posts), posts))
        /\ TopPostFromAll

\* C5 amended: as C5, except that averageEngagementRate is the all-posts mean
\* rounded to two decimal places.
C5_SummarySources ==
    (aggDone /\ Len(posts) > 0) =>
        /\ HeadlinesFromRecent
        /\ summary.totalEngagements = RefEngagements(Idx(posts), posts)
        /\ NearestMultiple(summary.averageEngagementRate,
                           RefMeanRate(Idx(posts), posts), 100)
        /\ TopPostFromAll

\* a summary whose recent window holds some but not all of the engagement and of
\* the rated posts, and whose reported average is a rounded one
C5_Witness ==
    /\ aggDone
    /\ Len(posts) > 0
    /\ summary.totalPosts > 0
    /\ summary.totalPosts < Len(posts)
    /\ summary.totalEngagements > RefEngagements(RecentIdx, posts)
    /\ ~RatEq(RefMeanRate(RecentIdx, posts), RefMeanRate(Idx(posts), posts))
    /\ ~RatEq(summary.averageEngagementRate, RefMeanRate(Idx(posts), posts))

\* a row of postList with this id occurs in view
InView(id, view) == \E k \in Idx(view) : view[k].id = id

\* C6: a post is in the recent view iff postedAt >= now - 30 days, in the previous
\* view iff now - 60 days <= postedAt < now - 30 days, and the all-posts view holds
\* every post of the principal.
C6_Windows ==
    (aggDone /\ Len(posts) > 0) =>
        /\ \A i \in Idx(posts) :
              /\ InView(posts[i].id, views.recent) <=> posts[i].posted_at >= now - 30
              /\ InView(posts[i].id, views.previous) <=>
                    (posts[i].posted_at >= now - 60 /\ posts[i].posted_at < now - 30)
              /\ InView(posts[i].id, views.all)
        /\ \A v \in { "recent", "previous", "all" } :
              \A k \in Idx(views[v]) : \E i \in Idx(posts) : views[v][k] = posts[i]

\* posts exactly 30 and exactly 60 days old, and one older than 60 days
C6_Witness ==
    /\ aggDone
    /\ \E i \in Idx(posts) :
          posts[i].posted_at = now - 30 /\ InView(posts[i].id, views.recent)
    /\ \E i \in Idx(posts) :
          posts[i].posted_at = now - 60 /\ InView(posts[i].id, views.previous)

ViewNames == { "recent", "previous", "all" }

\* C7: calculateMetrics returns the number of posts, the sums of impressions,
\* likes, comments, shares and reach, and totalEngagements = likes + comments +
\* shares + saves, an absent counter counting as 0; for the empty list every field
\* is 0.
C7_Totals ==
    (aggDone /\ Len(posts) > 0) =>
        \A v \in ViewNames :
            LET list == views[v]
                m    == metrics[v]
            IN  /\ m.totalPosts = Len(list)
                /\ m.totalViews = RefSum(Idx(list), list, "impressions")
                /\ m.totalLikes = RefSum(Idx(list), list, "likes")
                /\ m.totalComments = RefSum(Idx(list), list, "comments")
                /\ m.totalShares = RefSum(Idx(list), list, "shares")
                /\ m.totalReach = RefSum(Idx(list), list, "reach")
                /\ m.totalEngagements = RefEngagements(Idx(list), list)
                /\ list = <<>> =>
                      /\ m.totalPosts = 0 /\ m.totalViews = 0 /\ m.totalLikes = 0
                      /\ m.totalComments = 0 /\ m.totalShares = 0 /\ m.totalReach = 0
                      /\ m.totalEngagements = 0
                      /\ m.averageEngagementRate.n = 0

\* metrics of an empty window beside a list with saves and with absent counters
C7_Witness ==
    /\ aggDone
    /\ Len(posts) > 1
    /\ views.previous = <<>>
    /\ metrics.previous.totalPosts = 0
    /\ \E i \in Idx(posts) : posts[i].saves > 0
    /\ \E i \in Idx(posts) : posts[i].likes = NULL /\ posts[i].comments > 0
    /\ metrics.all.totalEngagements > metrics.all.totalLikes
          + metrics.all.totalComments + metrics.all.totalShares

\* C8: averageEngagementRate is the mean of engagementRate over the posts that
\* have a rate; a post without one adds to neither numerator nor denominator, and
\* the average is 0 when no post has a rate.
C8_AverageRate ==
    (aggDone /\ Len(posts) > 0) =>
        \A v \in ViewNames :
            LET list == views[v]
                W    == { i \in Idx(list) : list[i].engagement_rate # NULL }
                avg  == metrics[v].averageEngagementRate
            IN  /\ W = {} => avg.n = 0
                /\ W # {} =>
                      avg.n * Cardinality(W)
                          = RefSum(W, list, "engagement_rate") * avg.d

\* a list with a rated and an unrated post, whose mean is the rated posts' mean
C8_Witness ==
    /\ aggDone
    /\ \E i, j \in Idx(posts) :
          /\ posts[i].engagement_rate = NULL
          /\ posts[j].engagement_rate > 0
    /\ \E i \in Idx(posts) : posts[i].engagement_rate = 0
    /\ metrics.all.averageEngagementRate.d < Len(posts)
    /\ metrics.all.averageEngagementRate.n > 0

\* C9: topPost is the post with the largest likes + comments + shares + saves
\* (absent counters as 0), the first in list order when several share it; its
\* reported engagement is that maximum; for the empty list topPost is null.
C9_TopPost ==
    aggDone =>
        IF Len(posts) = 0 THEN summary.topPost = <<>>
        ELSE /\ Len(summary.topPost) = 1
             /\ \E i \in Idx(posts) :
                   /\ summary.topPost[1].id = posts[i].id
                   /\ summary.topPost[1].postedAt = posts[i].posted_at
                   /\ summary.topPost[1].engagement = RefEngagement(posts[i])
                   /\ \A j \in Idx(posts) :
                         RefEngagement(posts[j]) <= RefEngagement(posts[i])
                   /\ \A j \in Idx(posts) :
                         j < i => RefEngagement(posts[j]) < RefEngagement(posts[i])

\* a smaller post first, then two posts sharing the maximum: the first of the two
C9_Witness ==
    /\ aggDone
    /\ Len(posts) >= 3
    /\ \E i, j \in Idx(posts) :
          /\ 1 < i /\ i < j
          /\ RefEngagement(posts[1]) < RefEngagement(posts[i])
          /\ RefEngagement(posts[1]) > 0
          /\ RefEngagement(posts[i]) = RefEngagement(posts[j])
          /\ summary.topPost[1].id = posts[i].id

\* the recent and the previous value of a metric, as rationals
MetricValue(m, metric) ==
    IF metric = "averageEngagementRate" THEN m[metric] ELSE Rat(m[metric], 1)

\* C10: calculateChange(current, previous) is 100 when previous = 0 and current > 0,
\* 0 when both are 0, and otherwise ((current - previous) / previous) * 100 rounded
\* to one decimal place, not clamped; every changes.<metric> of the summary is
\* calculateChange(recent metric, previous-window metric).
C10_Changes ==
    (aggDone /\ Len(posts) > 0) =>
        \A metric \in MetricNames :
            LET c == MetricValue(metrics.recent, metric)
                p == MetricValue(metrics.previous, metric)
                r == summary.changes[metric]
            IN  /\ (p.n = 0 /\ c.n > 0) => (r.n = 100 * r.d)
                /\ (p.n = 0 /\ c.n = 0) => (r.n = 0)
                /\ p.n > 0 =>
                      NearestMultiple(r, Rat(100 * (c.n * p.d - p.n * c.d), c.d * p.n), 10)

\* a summary with a fall, a rise above 100 % and a change that needed rounding
C10_Witness ==
    /\ aggDone
    /\ Len(posts) > 0
    /\ \E metric \in DOMAIN summary.changes : summary.changes[metric].n < 0
    /\ \E metric \in DOMAIN summary.changes :
          summary.changes[metric].n > 100 * summary.changes[metric].d
    /\ \E metric \in DOMAIN summary.changes :
          LET c == MetricValue(metrics.recent, metric)
              p == MetricValue(metrics.previous, metric)
              r == summary.changes[metric]
          IN  /\ p.n > 0
              /\ r.n * c.d * p.n # 100 * (c.n * p.d - p.n * c.d) * r.d

-----------------------------------------------------------------------------
(* Properties of the summary endpoint for a principal without posts *)

\* the principal of the request owns no row of posts
PrincipalHasNoPosts ==
    /\ user \in Users
    /\ \A i \in 1..Len(PostsTable) : PostsTable[i].user_id # user

\* the summary route has answered after the datastore returned its rows
SummaryAnswered ==
    /\ pc = "done"
    /\ req.endpoint = "analytics_summary"
    /\ aggDone

\* C11: when the authenticated principal has zero posts, GET /analytics/summary
\* answers 200 with success: true, every numeric field 0, topPost null and every
\* changes field 0; the state is not reported as an error.
C11_ZeroPosts ==
    (SummaryAnswered /\ PrincipalHasNoPosts) =>
        /\ resp.status = 200
        /\ DOMAIN resp.body = { "success", "data" }
        /\ resp.body.success = TRUE
        /\ \A f \in MetricNames \ { "averageEngagementRate" } : resp.body.data[f] = 0
        /\ RatEq(resp.body.data.averageEngagementRate, IntRat(0))
        /\ resp.body.data.topPost = <<>>
        /\ DOMAIN resp.body.data.changes = MetricNames
        /\ \A f \in MetricNames : RatEq(resp.body.data.changes[f], IntRat(0))

\* a principal without posts has been served the summary
C11_Witness ==
    /\ SummaryAnswered
    /\ PrincipalHasNoPosts
    /\ posts = <<>>
    /\ resp.status = 200

-----------------------------------------------------------------------------
(* Properties of the query parameter validators.  They are stated over the  *)
(* characters of the argument, not through the operators above.             *)

\* the argument is a string
IsText(value) == value # NullParam /\ value # NonString

\* the argument without its leading and trailing blanks
RefTrimmed(value) ==
    LET inner == { k \in 1..Len(value) : value[k] \notin { " ", "\t", "\n" } }
    IN  IF inner = {} THEN <<>>
        ELSE LET lo == CHOOSE k \in inner : \A m \in inner : k <= m
                 hi == CHOOSE k \in inner : \A m \in inner : k >= m
             IN  [ k \in 1..(hi - lo + 1) |-> value[lo + k - 1] ]

\* the call of the named validator has returned
Returned(fn) == valCall.fn = fn /\ valResult # NoResult

\* C12: for every allow-list supplied to validateStringParam and every value, the
\* result is the trimmed value when the trimmed value equals a member of the list,
\* case-sensitively, and null otherwise.
C12_AllowList ==
    (Returned("validateStringParam") /\ valCall.allowedValues # Undefined) =>
        LET members == { valCall.allowedValues[i] :
                            i \in 1..Len(valCall.allowedValues) }
            trimmed == RefTrimmed(valCall.value)
        IN  valResult = IF IsText(valCall.value) /\ trimmed \in members
                        THEN trimmed
                        ELSE NullParam

\* the characters the specification admits without an allow-list
StatedClass ==
    { "a", "b", "c", "d", "e", "f", "g", "h", "i", "j", "k", "l", "m",
      "n", "o", "p", "q", "r", "s", "t", "u", "v", "w", "x", "y", "z",
      "A", "B", "C", "D", "E", "F", "G", "H", "I", "J", "K", "L", "M",
      "N", "O", "P", "Q", "R", "S", "T", "U", "V", "W", "X", "Y", "Z",
      "0", "1", "2", "3", "4", "5", "6", "7", "8", "9", "_", "-", " " }

\* C13: without an allow-list validateStringParam returns the trimmed value iff it
\* is non-empty and consists only of letters, digits, underscore, dash and space,
\* and null for every other input.
C13_BasicPattern ==
    (Returned("validateStringParam") /\ valCall.allowedValues = Undefined) =>
        LET trimmed == RefTrimmed(valCall.value)
        IN  valResult = IF /\ IsText(valCall.value)
                           /\ trimmed # <<>>
                           /\ \A k \in 1..Len(trimmed) : trimmed[k] \in StatedClass
                        THEN trimmed
                        ELSE NullParam

DigitChars == << "0", "1", "2", "3", "4", "5", "6", "7", "8", "9" >>

\* four digits, dash, two digits, dash, two digits
RefDateShape(str) ==
    /\ Len(str) = 10
    /\ str[5] = "-" /\ str[8] = "-"
    /\ \A k \in (1..10) \ { 5, 8 } : \E d \in 1..10 : DigitChars[d] = str[k]

\* the number two digit characters write
RefNumber(tens, units) ==
    CHOOSE n \in 0..99 :
        DigitChars[(n \div 10) + 1] = tens /\ DigitChars[(n % 10) + 1] = units

RefYear(str) == 100 * RefNumber(str[1], str[2]) + RefNumber(str[3], str[4])

RefMonth(str) == RefNumber(str[6], str[7])

RefDay(str) == RefNumber(str[9], str[10])

\* days of month m of year y in the Gregorian calendar
DaysInMonth(y, m) ==
    IF m \in { 4, 6, 9, 11 } THEN 30
    ELSE IF m = 2
         THEN IF (y % 4 = 0 /\ y % 100 # 0) \/ y % 400 = 0 THEN 29 ELSE 28
         ELSE 31

\* C14 as stated: validateDateParam returns the trimmed input iff it has the shape
\* YYYY-MM-DD and denotes a valid calendar date, and null for every other input.
C14_DateAsStated ==
    Returned("validateDateParam") =>
        LET trimmed == RefTrimmed(valCall.value)
        IN  valResult =
              IF /\ IsText(valCall.value)
                 /\ RefDateShape(trimmed)
                 /\ RefMonth(trimmed) \in 1..12
                 /\ RefDay(trimmed) \in 1..DaysInMonth(RefYear(trimmed), RefMonth(trimmed))
              THEN trimmed
              ELSE NullParam

\* C14: validateDateParam returns the trimmed input iff it has the shape
\* YYYY-MM-DD with a month from 01 to 12 and a day from 01 to 31 (a day past the
\* end of its month is accepted), and null for every other input.
C14_DateAccepted ==
    Returned("validateDateParam") =>
        LET trimmed == RefTrimmed(valCall.value)
        IN  valResult =
              IF /\ IsText(valCall.value)
                 /\ RefDateShape(trimmed)
                 /\ RefMonth(trimmed) \in 1..12
                 /\ RefDay(trimmed) \in 1..31
              THEN trimmed
              ELSE NullParam

\* 30 February, padded with blanks, has been accepted and trimmed
C14_Witness ==
    /\ Returned("validateDateParam")
    /\ valCall.value = <<" ", "2", "0", "2", "4", "-", "0", "2", "-", "3", "0", " ">>
    /\ valResult = <<"2", "0", "2", "4", "-", "0", "2", "-", "3", "0">>

\* C15: validateSortOrder returns its input when the input is exactly 'asc' or
\* exactly 'desc', and 'desc' for every other input: null, the empty string, a
\* value in another case, a padded value.
C15_SortOrder ==
    Returned("validateSortOrder") =>
        valResult = IF valCall.value \in { <<"a", "s", "c">>, <<"d", "e", "s", "c">> }
                    THEN valCall.value
                    ELSE <<"d", "e", "s", "c">>

\* an upper-case ASC has been answered with the default
C15_Witness ==
    /\ Returned("validateSortOrder")
    /\ valCall.value = <<"A", "S", "C">>
    /\ valResult = <<"d", "e", "s", "c">>

-----------------------------------------------------------------------------
(* Properties of the queries the routes build *)

\* the filters of a query on columns other than the owner
ParameterFilters(query) ==
    { query.filters[k] : k \in { n \in 1..Len(query.filters) :
                                    query.filters[n].column # "user_id" } }

\* the members of an allow-list
Members(allowedValues) == { allowedValues[i] : i \in 1..Len(allowedValues) }

\* what a choice parameter validates to, NullParam when it does not validate
RefChoice(raw, allowedValues) ==
    IF IsText(raw) /\ RefTrimmed(raw) \in Members(allowedValues)
    THEN RefTrimmed(raw)
    ELSE NullParam

\* what a date parameter validates to, NullParam when it does not validate
RefDate(raw) ==
    IF /\ IsText(raw)
       /\ RefDateShape(RefTrimmed(raw))
       /\ RefMonth(RefTrimmed(raw)) \in 1..12
       /\ RefDay(RefTrimmed(raw)) \in 1..31
    THEN RefTrimmed(raw)
    ELSE NullParam

\* the filters the specification gives a request to /posts, 'all' left aside
StatedChoiceFilters ==
    { [ column |-> c[1], op |-> "eq", value |-> c[2] ] :
        c \in { d \in { << "platform", RefChoice(req.platform, ALLOWED_PLATFORMS) >>,
                        << "media_type", RefChoice(req.mediaType, ALLOWED_MEDIA_TYPES) >> } :
                  d[2] # NullParam /\ d[2] # <<"a", "l", "l">> } }

\* the date filters the specification gives a request, on the named column
StatedDateFilters(column) ==
    { [ column |-> column, op |-> c[1], value |-> c[2] ] :
        c \in { d \in { << "gte", RefDate(req.startDate) >>,
                        << "lte", RefDate(req.endDate) >> } : d[2] # NullParam } }

\* C16: in GET /posts, /daily-metrics and /metrics/daily every value in a filter
\* other than the principal id is the non-null output of a validator (a member of
\* the allow-list, a validated date); a parameter that validates to null adds no
\* filter, and a raw string that does not validate never reaches a query.
C16_ValidatedFilters ==
    \A i \in 1..Len(queries) :
        /\ req.endpoint = "posts" =>
              ParameterFilters(queries[i]) =
                  StatedChoiceFilters \cup StatedDateFilters("posted_at")
        /\ req.endpoint \in { "daily_metrics", "metrics_daily" } =>
              ParameterFilters(queries[i]) = StatedDateFilters("date")
        /\ \A f \in ParameterFilters(queries[i]) :
              \/ f.value \in Members(ALLOWED_PLATFORMS) \cup Members(ALLOWED_MEDIA_TYPES)
              \/ RefDate(f.value) = f.value

\* a padded platform has been filtered on in its trimmed form while a date with
\* slashes has added no filter
C16_Witness ==
    /\ pc = "query"
    /\ req.endpoint = "posts"
    /\ req.platform = << " " >> \o Str_instagram
    /\ req.endDate = <<"2", "0", "2", "4", "/", "0", "3", "/", "1", "0">>
    /\ [ column |-> "platform", op |-> "eq", value |-> Str_instagram ]
          \in ParameterFilters(queries[1])
    /\ \A f \in ParameterFilters(queries[1]) : f.op # "lte"

\* C17: in GET /posts a platform or mediaType of 'all' passes the allow-list but
\* adds no platform or media_type filter; the literal 'all' never reaches a query
\* as an equality filter, and the query is the one built when the parameter is
\* left out.
C17_AllIsNoFilter ==
    \A i \in 1..Len(queries) :
        /\ \A f \in ParameterFilters(queries[i]) : f.value # <<"a", "l", "l">>
        /\ (req.endpoint = "posts" /\ RefTrimmed(req.platform) = <<"a", "l", "l">>) =>
              /\ \A f \in ParameterFilters(queries[i]) : f.column # "platform"
              /\ queries[i] = PostsQuery(user, [ req EXCEPT !.platform = NullParam ])
        /\ (req.endpoint = "posts" /\ RefTrimmed(req.mediaType) = <<"a", "l", "l">>) =>
              /\ \A f \in ParameterFilters(queries[i]) : f.column # "media_type"
              /\ queries[i] = PostsQuery(user, [ req EXCEPT !.mediaType = NullParam ])

\* a request with platform=all and mediaType=all has been served rows of more than
\* one platform and media type
C17_Witness ==
    /\ pc = "done"
    /\ req.endpoint = "posts"
    /\ req.platform = <<"a", "l", "l">>
    /\ req.mediaType = <<"a", "l", "l">>
    /\ resp.status = 200
    /\ \E k, n \in 1..Len(resp.body.data) :
          /\ resp.body.data[k].platform # resp.body.data[n].platform
          /\ resp.body.data[k].media_type # resp.body.data[n].media_type

\* the column a sort field names
ColumnOf(field) ==
    CASE field = <<"l", "i", "k", "e", "s">> -> "likes"
      [] OTHER -> "posted_at"

\* the column GET /posts is to order by: the requested sort field when it is in
\* the allow-list, posted_at otherwise
StatedSortColumn ==
    ColumnOf(RefChoice(req.sortField, ALLOWED_POST_SORT_FIELDS))

\* the direction GET /posts is to order in
StatedAscending == req.sortOrder = <<"a", "s", "c">>

\* C18: GET /posts orders its result by the requested sortField when it is in the
\* sort-field allow-list and by posted_at otherwise, in the direction
\* validateSortOrder(sortOrder) gives, desc by default (rows without a value in
\* the column are left aside).
C18_PostsOrdered ==
    (pc = "done" /\ req.endpoint = "posts" /\ resp.status = 200) =>
        \A k, n \in 1..Len(resp.body.data) :
            LET a == resp.body.data[k][StatedSortColumn]
                b == resp.body.data[n][StatedSortColumn]
            IN  (k < n /\ a # NULL /\ b # NULL) =>
                    IF StatedAscending THEN a <= b ELSE a >= b

\* the dates of the principal's rows of daily_metrics within the bounds of the
\* request that validate
StatedDates ==
    { DailyMetricsTable[i].date :
        i \in { k \in 1..Len(DailyMetricsTable) :
                  /\ DailyMetricsTable[k].user_id = user
                  /\ RefDate(req.startDate) # NullParam =>
                        DailyMetricsTable[k].date >= DayNumber(RefDate(req.startDate))
                  /\ RefDate(req.endDate) # NullParam =>
                        DailyMetricsTable[k].date <= DayNumber(RefDate(req.endDate)) } }

\* GET /daily-metrics or /metrics/daily has answered with rows
DailyAnswered ==
    /\ pc = "done"
    /\ req.endpoint \in { "daily_metrics", "metrics_daily" }
    /\ resp.status = 200

\* C19: every successful response of GET /daily-metrics and of /metrics/daily
\* lists the caller's rows of daily_metrics in ascending order of date, restricted
\* to date >= startDate and date <= endDate for each bound that validates.
C19_DailyAscending ==
    DailyAnswered =>
        LET data == resp.body.data
        IN  /\ \A k \in 1..Len(data) : data[k].user_id = user
            /\ \A k \in 1..(Len(data) - 1) : data[k].date < data[k + 1].date
            /\ { data[k].date : k \in 1..Len(data) } = StatedDates
            /\ \A k \in 1..Len(data) :
                  \E i \in 1..Len(DailyMetricsTable) : DailyMetricsTable[i] = data[k]

\* rows stored as 70, 40 have been served as 40, 70 under an upper bound
C19_Witness ==
    /\ DailyAnswered
    /\ req.endDate = <<"2", "0", "2", "4", "-", "0", "3", "-", "1", "0">>
    /\ Len(resp.body.data) = 2
    /\ resp.body.data[1].date = 40
    /\ resp.body.data[2].date = 70

-----------------------------------------------------------------------------
(* Properties of the login route *)

\* C20: every 401 of POST /auth/login has the body {error: "Invalid email or
\* password"}, whatever made the authentication fail: an unknown email, a wrong
\* password, the auth service returning no user.
C20_LoginGeneric401 ==
    (pc = "done" /\ req.endpoint = "auth_login" /\ resp.status = 401) =>
        resp.body = [ error |-> "Invalid email or password" ]

-----------------------------------------------------------------------------
(* Properties of the signup route *)

\* the email of the request is a string whose trimmed form is local@domain.tld
\* without blanks and without a second @
StatedEmailOk ==
    /\ IsText(req.email)
    /\ LET t == RefTrimmed(req.email)
           ats == { k \in 1..Len(t) : t[k] = "@" }
       IN  /\ Cardinality(ats) = 1
           /\ \A k \in 1..Len(t) : t[k] \notin { " ", "\t", "\n" }
           /\ \E at \in ats :
                 /\ at > 1
                 /\ \E dot \in (at + 2)..(Len(t) - 1) : t[dot] = "."

\* the password of the request is a string of 6 to 128 characters
StatedPasswordOk ==
    IsText(req.password) /\ Len(req.password) >= 6 /\ Len(req.password) <= 128

EmailMessages == { "Email is required", "Email must be a string", "Invalid email format" }

PasswordMessages ==
    { "Password is required", "Password must be a string",
      "Password must be at least 6 characters", "Password is too long" }

\* the signup route has answered
SignupAnswered == pc = "done" /\ req.endpoint = "auth_signup"

\* the route called supabase.auth.signUp
SignUpCalled == \E k \in 1..Len(steps) : steps[k] = "signUp"

\* C21: validateSignupCredentials returns null iff the email is a string whose
\* trimmed form has the email format and the password is a string of 6 to 128
\* characters; otherwise it returns a message, the email's when both are invalid;
\* POST /auth/signup answers 400 with that message and does not call the auth
\* service.
C21_SignupValidation ==
    SignupAnswered =>
        LET result == validateSignupCredentials(req.email, req.password)
        IN  /\ result = NullMessage <=> (StatedEmailOk /\ StatedPasswordOk)
            /\ ~StatedEmailOk => result \in EmailMessages
            /\ (StatedEmailOk /\ ~StatedPasswordOk) => result \in PasswordMessages
            /\ SignUpCalled <=> (StatedEmailOk /\ StatedPasswordOk)
            /\ ~SignUpCalled => resp = [ status |-> 400, body |-> [ error |-> result ] ]

\* a request with a malformed email and a short password has been refused with the
\* email's message, the auth service not called
C21_Witness ==
    /\ SignupAnswered
    /\ req.email = <<"a", "@", "b">>
    /\ Len(req.password) = 5
    /\ resp = [ status |-> 400, body |-> [ error |-> "Invalid email format" ] ]
    /\ ~SignUpCalled


-----------------------------------------------------------------------------
(* Properties of the browser session *)

\* C22: POST /api/auth/logout always answers {success: true} and is idempotent:
\* whatever the session was, after one call or several in a row the last answer
\* is 200 {success: true} and the session is the signed-out one that a single
\* call leaves.
C22_LogoutIdempotent ==
    logoutCalls >= 1 =>
        /\ resp = [ status |-> 200, body |-> [ success |-> TRUE ] ]
        /\ session = NoUser

\* C27: whenever a signed-in user is on the dashboard, every entry of the client
\* query cache was fetched for that user.
C27_CacheOfCurrentUser ==
    (page = "dashboard" /\ session # NoUser) =>
        \A e \in cache : e.owner = session

-----------------------------------------------------------------------------
(* Properties of the UI store *)

\* the field of the state each action other than resetFilters is about
OwnField ==
    [ setPlatformFilter  |-> "platformFilter",
      setMediaTypeFilter |-> "mediaTypeFilter",
      setDateRange       |-> "dateRange",
      setSortField       |-> "sortField",
      setSortOrder       |-> "sortOrder",
      setSelectedPost    |-> "selectedPost",
      setChartViewType   |-> "chartViewType",
      setSidebarOpen     |-> "sidebarOpen",
      toggleSidebar      |-> "sidebarOpen" ]

StoreFields ==
    { "platformFilter", "mediaTypeFilter", "dateRange", "sortField", "sortOrder",
      "selectedPost", "chartViewType", "sidebarOpen" }

\* C30: after resetFilters every field of the store has its initial value, the
\* sorting, the selected post, the chart view and the sidebar included; after any
\* other action every field but the action's own is what it was before, and a
\* setter's own field is its argument.
C30_ResetRestoresAll ==
    /\ DOMAIN ui = StoreFields
    /\ storeCall.name = "resetFilters" =>
          /\ ui.platformFilter = "all"
          /\ ui.mediaTypeFilter = "all"
          /\ ui.dateRange = [ start |-> NULL, end |-> NULL ]
          /\ ui.sortField = "posted_at"
          /\ ui.sortOrder = "desc"
          /\ ui.selectedPost = NULL
          /\ ui.chartViewType = "line"
          /\ ui.sidebarOpen = FALSE
    /\ storeCall.name \in DOMAIN OwnField =>
          \A f \in StoreFields \ { OwnField[storeCall.name] } :
              ui[f] = storeCall.before[f]
    /\ storeCall.name \in DOMAIN OwnField \ { "toggleSidebar" } =>
          ui[OwnField[storeCall.name]] = storeCall.arg

\* resetFilters was called on a store in which no field had its initial value
C30_Witness ==
    /\ storeCall.name = "resetFilters"
    /\ \A f \in StoreFields : storeCall.before[f] # initialState[f]
    /\ ui = initialState

-----------------------------------------------------------------------------
(* Properties of the error responses of the protected routes *)

\* the request was answered after its datastore query had been awaited and failed
FetchFailed ==
    /\ pc = "done"
    /\ req.endpoint \in Endpoints
    /\ \E k \in 1..Len(steps) : steps[k] = "fetch"
    /\ resp.status # 200

\* the messages the routes write out themselves for a failed fetch
FixedFetchMessages ==
    [ posts             |-> { "Failed to fetch posts",
                              "An error occurred while fetching posts" },
      analytics_summary |-> { "Failed to fetch analytics data",
                              "Failed to fetch analytics summary" },
      daily_metrics     |-> { "Failed to fetch daily metrics",
                              "An error occurred while fetching daily metrics" },
      metrics_daily     |-> { "Failed to fetch daily metrics",
                              "An error occurred while fetching daily metrics" } ]

\* C23: a failed datastore query is answered with status 500; outside development
\* the message is one of the fixed messages of the route, so no text of the
\* backend error reaches the caller and two runs that differ in that text only
\* are answered alike; in development the only other message is the text of a
\* thrown Error.
C23_GenericBackendFailure ==
    FetchFailed =>
        /\ resp.status = 500
        /\ config.nodeEnv # "development" =>
              /\ resp.body.error \in FixedFetchMessages[req.endpoint]
              /\ \A e \in ErrorSamples : resp.body.error # e.message
        /\ resp.body.error \in FixedFetchMessages[req.endpoint]
                                  \cup { e.message : e \in { x \in ErrorSamples : x.isError } }

\* a production server answers a query that threw with the generic message
C23_Witness ==
    /\ FetchFailed
    /\ config.nodeEnv = "production"
    /\ req.endpoint = "posts"
    /\ resp = [ status |-> 500,
                body |-> [ error |-> "An error occurred while fetching posts" ] ]

\* C24: every answer of GET /posts, /analytics/summary and /daily-metrics that is
\* not a success has the body {success: false, error}, with status 401 when no
\* principal was resolved and 500 otherwise.
C24_ErrorBodyShape ==
    (/\ pc = "done"
     /\ req.endpoint \in { "posts", "analytics_summary", "daily_metrics" }
     /\ resp.status # 200) =>
        /\ DOMAIN resp.body = { "success", "error" }
        /\ resp.body.success = FALSE
        /\ resp.status = IF user = NoUser THEN 401 ELSE 500

\* C25: resolving the principal only reads the credential: on no request does the
\* auth client of the guard write, refresh or remove session cookies.
C25_GuardReadsOnly ==
    req.endpoint \in Endpoints => ~cookiesSet

-----------------------------------------------------------------------------
(* Properties of the order of the steps of a protected request *)

\* the place of each step in the stated control flow
StepRank == [ guard |-> 1, validate |-> 2, fetch |-> 3, aggregate |-> 4, respond |-> 5 ]

\* the request has run the step
HasStep(step) == \E k \in 1..Len(steps) : steps[k] = step

\* C26: the steps of a protected request run in the order guard, validation,
\* fetch, aggregation, response; validation runs only once the guard has resolved
\* a principal, so a request without principal that the guard has judged gets the
\* 401 whatever its parameters are.
C26_GuardBeforeValidation ==
    req.endpoint \in Endpoints =>
        /\ \A i, k \in 1..Len(steps) :
              i < k => StepRank[steps[i]] < StepRank[steps[k]]
        /\ HasStep("validate") => (HasStep("guard") /\ user \in Users)
        /\ (pc = "done" /\ user = NoUser /\ HasStep("guard") /\ req.authBackend = "up") =>
              (resp.status = 401 /\ ~HasStep("validate"))

\* a request without session whose date range is reversed is answered 401
C26_Witness ==
    /\ pc = "done"
    /\ req.endpoint = "metrics_daily"
    /\ req.credential = "missing"
    /\ InvalidDateRange(req)
    /\ resp.status = 401
    /\ steps = << "guard", "respond" >>

-----------------------------------------------------------------------------
(* Properties of the top post and of the two windows of the summary *)

\* every post of the principal was posted before the recent window
AllBeforeRecentWindow ==
    \A k \in 1..Len(posts) : posts[k].posted_at < now - 30

\* C28: the summary's topPost is null exactly when the principal has no posts; a
\* principal whose posts all lie before the recent window gets totalPosts = 0
\* together with a top post.
C28_TopPostNullIffNoPosts ==
    aggDone =>
        /\ summary.topPost = <<>> <=> Len(posts) = 0
        /\ (Len(posts) > 0 /\ AllBeforeRecentWindow) =>
              (summary.totalPosts = 0 /\ Len(summary.topPost) = 1)

\* posts there are, none of them recent: no posts counted, a top post named
C28_Witness ==
    /\ aggDone
    /\ Len(posts) = 2
    /\ AllBeforeRecentWindow
    /\ summary.totalPosts = 0
    /\ Len(summary.topPost) = 1
    /\ \E k \in 1..Len(posts) : summary.topPost[1].id = posts[k].id

\* the ids of the posts of a list
IdsOf(postList) == { postList[k].id : k \in 1..Len(postList) }

\* C29: the recent and the previous view have no post in common and hold posts of
\* the principal only, a post more than 60 days old is in neither, and the two
\* totalPosts together do not exceed the number of posts.
C29_WindowsDisjoint ==
    (aggDone /\ Len(posts) > 0) =>
        /\ IdsOf(views.recent) \cap IdsOf(views.previous) = {}
        /\ \A k \in 1..Len(views.recent) :
              \E n \in 1..Len(posts) : views.recent[k] = posts[n]
        /\ \A k \in 1..Len(views.previous) :
              \E n \in 1..Len(posts) : views.previous[k] = posts[n]
        /\ \A n \in 1..Len(posts) :
              posts[n].posted_at < now - 60 =>
                  posts[n].id \notin IdsOf(views.recent) \cup IdsOf(views.previous)
        /\ metrics.recent.totalPosts + metrics.previous.totalPosts <= Len(posts)

\* one post in each window and one older than both
C29_Witness ==
    /\ aggDone
    /\ Len(posts) = 3
    /\ \E n \in 1..Len(posts) : posts[n].posted_at < now - 60
    /\ metrics.recent.totalPosts = 1
    /\ metrics.previous.totalPosts = 1
=============================================================================
